---------------------------- MODULE Spec2Model ----------------------------
(***************************************************************************)
(* A model of robot-sf: the differential-drive kinematics                  *)
(* (robot_sf/robot/differential_drive.py), the pedestrian force extensions *)
(* (robot_sf/extenders_py_sf/extender_force.py) and the episode reset of   *)
(* the gym environment (robot_sf/robot_env.py).                            *)
(*                                                                         *)
(* Real numbers are fixed-point integers with Scale units per 1.0.  Scale  *)
(* is a power of two and every input below is a dyadic fraction, so the    *)
(* linear part of the kinematics (clip, wheel speeds, distance, heading)   *)
(* is computed exactly; only sin and cos are approximations.               *)
(***************************************************************************)
EXTENDS Integers, Sequences, FiniteSets, TLC

VARIABLES
    \* ---- DifferentialDriveSettings construction
    ctor_args,      \* the five constructor arguments of the last construction
    ctor_result,    \* "none" | "ok" | "ValueError"
    settings,       \* the settings object that exists after construction
    \* ---- DifferentialDriveMotion / DifferentialDriveRobot
    config,         \* DifferentialDriveMotion.config
    state,          \* DifferentialDriveState
    origin,         \* how `state` was created: "direct" | "reset"
    moves,          \* number of move calls so far
    hist,           \* the last move call: its inputs, its pre-state, its locals
    \* ---- pedestrian forces (extender_force.py)
    peds_pos,       \* self.peds.pos(): one position per pedestrian
    groups,         \* self.peds.groups: a list of lists of pedestrian indices
    force_cfg,      \* the parameters of the force objects and of the scene
    robot_state,    \* PedRobotForce.robot_state
    force_kind,     \* which _get_force returned last: "none" or the class name
    force,          \* the array it returned: one vector per pedestrian
    \* ---- RobotEnv (robot_env.py)
    robot_map,      \* self.robot_map: the bounds and obstacles of the map
    env,            \* the fields of RobotEnv: duration, rotation_counter,
                    \* target_coords, robot, distance_init
    reset_pc,       \* where reset() is: "idle" | "goal" | "spawn" | "returned" | "raised"
    count,          \* the local `count` of _pick_robot_spawn_and_target_pos
    target_cand,    \* its local target_coords
    robot_pose,     \* its local robot_pose
    reset_log,      \* bookkeeping of the reset calls: how many there were, the
                    \* fields at entry, the candidates drawn by the running call
    \* ---- RobotEnv.__init__ and RobotEnv.step (robot_env.py)
    env_args,       \* the arguments of the last RobotEnv(...) call
    env_cfg,        \* the fields __init__ sets: lidar_range, linear_max, ...
    step_log,       \* the last step call: what each of its statements read
    obs,            \* what reset() or step() returned last as the observation
    \* ---- SimulationView (sim_view.py)
    view,           \* the fields of the SimulationView, its window and its UI thread
    vstate,         \* the VisualizableSimState object the caller holds
    render_log,     \* the last render call: the state before it, how it ended
    \* ---- the map file parser (map_file_parser.py)
    map_text,       \* the text given to parse_mapfile_text
    map_config,     \* what it returned: << >> for None, <<config>> for a config
    \* ---- the feature extractor (feature_extractor.py)
    extractor_args, \* the arguments DynamicsExtractor was called with
    extractor,      \* how the constructor ended
    \* ---- the goal-seeking force (extender_force.py, DesiredForce)
    peds_state,     \* per pedestrian: pos, vel, goal and max_speed
    desired_cfg,    \* the object's configuration and constructor arguments
    desired,        \* the last _get_force call: its result and intermediate arrays
    last_force,     \* what the call before the last one returned, << >> if none
    \* ---- the toolbar of the map editor (map_editor.py, MapEditorToolbar)
    toolbar,        \* mode, the background of each button, whether pack() has run
    mode_log,       \* the change_mode calls and what on_mode_changed was told
    \* ---- the map editor (map_editor.py, MapEditor)
    editor,         \* the fields of the MapEditor, its main thread and rendering thread
    editor_text,    \* the text in the text editor widget
    reload_log      \* the last reload_map: the fields before it, the text it read, how drawing ended

settingsVars == <<ctor_args, ctor_result, settings>>
driveVars == <<config, state, origin, moves, hist>>
forceVars == <<peds_pos, groups, force_cfg, robot_state, force_kind, force>>
envVars == <<robot_map, env, reset_pc, count, target_cand, robot_pose, reset_log>>
gymVars == <<env_args, env_cfg, step_log, obs>>
viewVars == <<view, vstate, render_log>>
parseVars == <<map_text, map_config>>
extractorVars == <<extractor_args, extractor>>
desiredVars == <<peds_state, desired_cfg, desired, last_force>>
toolbarVars == <<toolbar, mode_log>>
editorVars == <<editor, editor_text, reload_log>>
vars == <<settingsVars, driveVars, forceVars, envVars, gymVars, viewVars, parseVars, extractorVars, desiredVars, toolbarVars, editorVars>>

\* What the operations of one component leave alone
notSettings == <<driveVars, forceVars, envVars, gymVars, viewVars, parseVars, extractorVars, desiredVars, toolbarVars, editorVars>>
notDrive == <<settingsVars, forceVars, envVars, gymVars, viewVars, parseVars, extractorVars, desiredVars, toolbarVars, editorVars>>
notForce == <<settingsVars, driveVars, envVars, gymVars, viewVars, parseVars, extractorVars, desiredVars, toolbarVars, editorVars>>
notEnv == <<settingsVars, driveVars, forceVars, gymVars, viewVars, parseVars, extractorVars, desiredVars, toolbarVars, editorVars>>
notView == <<settingsVars, driveVars, forceVars, envVars, gymVars, parseVars, extractorVars, desiredVars, toolbarVars, editorVars>>
notParse == <<settingsVars, driveVars, forceVars, envVars, gymVars, viewVars, extractorVars, desiredVars, toolbarVars, editorVars>>
notExtractor == <<settingsVars, driveVars, forceVars, envVars, gymVars, viewVars, parseVars, desiredVars, toolbarVars, editorVars>>
notDesired == <<settingsVars, driveVars, forceVars, envVars, gymVars, viewVars, parseVars, extractorVars, toolbarVars, editorVars>>
notToolbar == <<settingsVars, driveVars, forceVars, envVars, gymVars, viewVars, parseVars, extractorVars, desiredVars, editorVars>>
notEditor == <<settingsVars, driveVars, forceVars, envVars, gymVars, viewVars, parseVars, extractorVars, desiredVars, toolbarVars>>
\* What RobotEnv, its robot and its simulator have no part in
notSim == <<settingsVars, viewVars, parseVars, extractorVars, desiredVars, toolbarVars, editorVars>>

----------------------------------------------------------------------------
(* Fixed-point arithmetic *)

Scale == 64 * 64

Min(a, b) == IF a <= b THEN a ELSE b
Max(a, b) == IF a >= b THEN a ELSE b
Abs(a) == IF a < 0 THEN -a ELSE a

\* a * b and a / b on fixed-point numbers, rounded toward zero
Quot(n, d) == IF n >= 0 THEN n \div d ELSE -((-n) \div d)
Mul(a, b) == Quot(a * b, Scale)
Div(a, b) == IF b > 0 THEN Quot(a * Scale, b) ELSE Quot((-a) * Scale, -b)

HalfUnit == Scale \div 2

\* math.pi, 2*pi and pi/2 in fixed point (355/113 = 3.1415929...)
Pi == (2 * 355 * Scale + 113) \div (2 * 113)
TwoPi == 2 * Pi
HalfPi == Pi \div 2

\* sin on [-pi/2, pi/2]: the Taylor polynomial of degree 7
SinSeries(x) ==
    LET x2 == Mul(x, x)
        x3 == Mul(x, x2)
        x5 == Mul(x3, x2)
        x7 == Mul(x5, x2)
    IN  x - Quot(x3, 6) + Quot(x5, 120) - Quot(x7, 5040)

\* math.sin and math.cos: reduction to [0, 2*pi), then to [-pi/2, pi/2]
sin(a) ==
    LET r == a % TwoPi
    IN  IF r <= HalfPi THEN SinSeries(r)
        ELSE IF r <= Pi + HalfPi THEN SinSeries(Pi - r)
        ELSE SinSeries(r - TwoPi)

cos(a) == sin(a + HalfPi)

\* np.clip(x, lo, hi) = minimum(maximum(x, lo), hi)
Clip(x, lo, hi) == Min(Max(x, lo), hi)

----------------------------------------------------------------------------
(* DifferentialDriveSettings *)

\* Values a constructor argument is drawn from: -1, 0, 1/2, 1, 2
SettingVals == {-Scale, 0, HalfUnit, Scale, 2 * Scale}

SettingsArgs ==
    [radius : SettingVals, max_linear_speed : SettingVals,
     max_angular_speed : SettingVals, wheel_radius : SettingVals,
     interaxis_length : SettingVals]

NoSettings ==
    [radius |-> 0, max_linear_speed |-> 0, max_angular_speed |-> 0,
     wheel_radius |-> 0, interaxis_length |-> 0]

\* __post_init__ with `<` where the code has `<=`: zero is let through
PostInitRaisesStrict(s) ==
    \/ s.radius < 0
    \/ s.wheel_radius < 0
    \/ s.max_linear_speed < 0 \/ s.max_angular_speed < 0
    \/ s.interaxis_length < 0

\* __post_init__: TRUE when one of the four checks raises ValueError
PostInitRaises(s) ==
    \/ s.radius <= 0
    \/ s.wheel_radius <= 0
    \/ s.max_linear_speed <= 0 \/ s.max_angular_speed <= 0
    \/ s.interaxis_length <= 0

\* DifferentialDriveSettings(...): the dataclass __init__ stores the fields and
\* calls __post_init__; when that raises, the caller gets no object.
ConstructSettings(args) ==
    /\ ctor_result = "none"
    /\ ctor_args' = args
    /\ IF PostInitRaises(args)
       THEN /\ ctor_result' = "ValueError"
            /\ settings' = settings
       ELSE /\ ctor_result' = "ok"
            /\ settings' = args
    /\ UNCHANGED notSettings

----------------------------------------------------------------------------
(* DifferentialDriveMotion *)

\* _robot_velocity with the linear speed clipped to [-max, max]
RobotVelocitySymmetric(cfg, velocity, action) ==
    <<Clip(velocity[1] + action[1], -cfg.max_linear_speed, cfg.max_linear_speed),
      Clip(velocity[2] + action[2], -cfg.max_angular_speed, cfg.max_angular_speed)>>

\* _robot_velocity
RobotVelocity(cfg, velocity, action) ==
    LET dot_x == velocity[1] + action[1]
        dot_orient == velocity[2] + action[2]
        angular_max == cfg.max_angular_speed
    IN  <<Clip(dot_x, 0, cfg.max_linear_speed),
          Clip(dot_orient, -angular_max, angular_max)>>

\* _resulting_wheel_speeds with the two wheels exchanged
ResultingWheelSpeedsSwapped(cfg, movement) ==
    LET diff == Quot(Mul(cfg.interaxis_length, movement[2]), 2)
    IN  <<Div(movement[1] + diff, cfg.wheel_radius),
          Div(movement[1] - diff, cfg.wheel_radius)>>

\* _resulting_wheel_speeds: (left, right)
ResultingWheelSpeeds(cfg, movement) ==
    LET dot_x == movement[1]
        dot_orient == movement[2]
        diff == Quot(Mul(cfg.interaxis_length, dot_orient), 2)
        new_left_wheel_speed == Div(dot_x - diff, cfg.wheel_radius)
        new_right_wheel_speed == Div(dot_x + diff, cfg.wheel_radius)
    IN  <<new_left_wheel_speed, new_right_wheel_speed>>

\* _covered_distance with the whole wheel radius
CoveredDistanceFullRadius(cfg, last_wheel_speeds, new_wheel_speeds, d_t) ==
    LET velocity == Quot(last_wheel_speeds[1] + new_wheel_speeds[1], 2)
                    + Quot(last_wheel_speeds[2] + new_wheel_speeds[2], 2)
    IN  Mul(Mul(cfg.wheel_radius, velocity), d_t)

\* _covered_distance with the new wheel speeds only (no trapezoid)
CoveredDistanceEndpoint(cfg, last_wheel_speeds, new_wheel_speeds, d_t) ==
    Mul(Mul(Quot(cfg.wheel_radius, 2), new_wheel_speeds[1] + new_wheel_speeds[2]), d_t)

\* _covered_distance
CoveredDistance(cfg, last_wheel_speeds, new_wheel_speeds, d_t) ==
    LET velocity == Quot(last_wheel_speeds[1] + new_wheel_speeds[1], 2)
                    + Quot(last_wheel_speeds[2] + new_wheel_speeds[2], 2)
    IN  Mul(Mul(Quot(cfg.wheel_radius, 2), velocity), d_t)

\* _new_orientation with the result wrapped into [0, 2*pi)
NewOrientationWrapped(cfg, robot_orient, last_wheel_speeds, wheel_speeds, d_t) ==
    LET right_left_diff == Quot(last_wheel_speeds[2] + wheel_speeds[2], 2)
                           - Quot(last_wheel_speeds[1] + wheel_speeds[1], 2)
        diff == Mul(Mul(Div(cfg.wheel_radius, cfg.interaxis_length), right_left_diff), d_t)
    IN  (robot_orient + diff) % TwoPi

\* _new_orientation with left minus right
NewOrientationMirrored(cfg, robot_orient, last_wheel_speeds, wheel_speeds, d_t) ==
    LET left_right_diff == Quot(last_wheel_speeds[1] + wheel_speeds[1], 2)
                           - Quot(last_wheel_speeds[2] + wheel_speeds[2], 2)
    IN  robot_orient
        + Mul(Mul(Div(cfg.wheel_radius, cfg.interaxis_length), left_right_diff), d_t)

\* _new_orientation
NewOrientation(cfg, robot_orient, last_wheel_speeds, wheel_speeds, d_t) ==
    LET right_left_diff == Quot(last_wheel_speeds[2] + wheel_speeds[2], 2)
                           - Quot(last_wheel_speeds[1] + wheel_speeds[1], 2)
        diff == Mul(Mul(Div(cfg.wheel_radius, cfg.interaxis_length), right_left_diff), d_t)
    IN  robot_orient + diff

\* _compute_odometry: movement = (distance_covered, new_orient)
ComputeOdometry(old_pose, movement) ==
    LET distance_covered == movement[1]
        new_orient == movement[2]
        rel_rotation == Quot(old_pose.orient + new_orient, 2)
    IN  [x |-> old_pose.x + Mul(distance_covered, cos(rel_rotation)),
         y |-> old_pose.y + Mul(distance_covered, sin(rel_rotation)),
         orient |-> new_orient]

\* The locals of one move call
MoveLocals(cfg, s, action, d_t) ==
    LET robot_vel == RobotVelocity(cfg, s.velocity, action)
        new_wheel_speeds == ResultingWheelSpeeds(cfg, robot_vel)
    IN  [robot_vel |-> robot_vel,
         new_wheel_speeds |-> new_wheel_speeds,
         distance |-> CoveredDistance(cfg, s.wheel_speeds, new_wheel_speeds, d_t),
         new_orient |-> NewOrientation(cfg, s.pose.orient, s.wheel_speeds,
                                       new_wheel_speeds, d_t)]

\* DifferentialDriveMotion.move: the state after the call
MoveResult(cfg, s, action, d_t) ==
    LET l == MoveLocals(cfg, s, action, d_t)
    IN  [pose |-> ComputeOdometry(s.pose, <<l.distance, l.new_orient>>),
         velocity |-> l.robot_vel,
         last_wheel_speeds |-> s.wheel_speeds,
         wheel_speeds |-> l.new_wheel_speeds]

\* DifferentialDriveState(pose): velocity and both wheel-speed pairs default to (0, 0)
NewState(pose) ==
    [pose |-> pose, velocity |-> <<0, 0>>,
     last_wheel_speeds |-> <<0, 0>>, wheel_speeds |-> <<0, 0>>]

Origin == [x |-> 0, y |-> 0, orient |-> 0]

NoHist ==
    [moved |-> FALSE, pre |-> NewState(Origin), action |-> <<0, 0>>, d_t |-> 0,
     distance |-> 0]

\* norm_angle of differential_drive_test.py: the angle brought into [0, 2*pi)
RECURSIVE norm_angle(_)
norm_angle(angle) ==
    IF angle < 0 THEN norm_angle(angle + TwoPi)
    ELSE IF angle >= TwoPi THEN norm_angle(angle - TwoPi)
    ELSE angle

(* Inputs *)

MaxMoves == 2

\* Action components (deltas of linear and angular velocity) and time steps
LinearActions == {-HalfUnit, 0, Scale}
AngularActions == {-HalfUnit, 0, HalfUnit}
TimeSteps == {HalfUnit, Scale}

\* Settings that pass __post_init__: the test's all-ones configuration and
\* variations of wheel radius, interaxis length and the speed limits
AllOnes ==
    [radius |-> Scale, max_linear_speed |-> Scale, max_angular_speed |-> Scale,
     wheel_radius |-> Scale, interaxis_length |-> Scale]

DriveConfigs ==
    {c \in {AllOnes,
            [AllOnes EXCEPT !.wheel_radius = 2 * Scale, !.max_linear_speed = 2 * Scale],
            [AllOnes EXCEPT !.interaxis_length = 2 * Scale, !.max_angular_speed = HalfUnit],
            [AllOnes EXCEPT !.wheel_radius = HalfUnit, !.interaxis_length = HalfUnit]}
       : ~PostInitRaises(c)}

\* The start state of the regression tests (differential_drive_test.py)
TestState ==
    [pose |-> Origin, velocity |-> <<Scale, 0>>,
     last_wheel_speeds |-> <<Scale, Scale>>, wheel_speeds |-> <<Scale, Scale>>]

\* States built directly with DifferentialDriveState(pose, velocity, last, current):
\* nothing ties their velocity to the limits or their wheel speeds to the velocity;
\* the last one is turning left with a heading just below 2*pi
DirectStates ==
    {TestState,
     [TestState EXCEPT !.velocity = <<Scale, HalfUnit>>],
     [TestState EXCEPT !.velocity = <<3 * Scale, -(2 * Scale)>>],
     [TestState EXCEPT !.velocity = <<-Scale, 0>>, !.wheel_speeds = <<-Scale, -Scale>>],
     [TestState EXCEPT !.wheel_speeds = <<0, Scale>>],
     [TestState EXCEPT !.velocity = <<0, 0>>, !.wheel_speeds = <<0, 0>>,
                       !.pose = [x |-> 0, y |-> 0, orient |-> Scale]],
     [TestState EXCEPT !.velocity = <<HalfUnit, 0>>, !.wheel_speeds = <<Scale, Scale>>],
     [TestState EXCEPT !.velocity = <<0, HalfUnit>>,
                       !.wheel_speeds = <<-(Scale \div 4), Scale \div 4>>,
                       !.pose = [x |-> 0, y |-> 0, orient |-> 6 * Scale]]}

SpawnPoses == {Origin, [x |-> Scale, y |-> -Scale, orient |-> HalfUnit]}

\* DifferentialDriveRobot.apply_action -> DifferentialDriveMotion.move
Move(action, d_t) ==
    /\ moves < MaxMoves
    /\ hist' = [moved |-> TRUE, pre |-> state, action |-> action, d_t |-> d_t,
                distance |-> MoveLocals(config, state, action, d_t).distance]
    /\ state' = MoveResult(config, state, action, d_t)
    /\ moves' = moves + 1
    /\ UNCHANGED <<config, origin, notDrive>>

\* DifferentialDriveRobot.reset_state
ResetState(new_pose) ==
    /\ state' = NewState(new_pose)
    /\ origin' = "reset"
    /\ hist' = NoHist
    /\ UNCHANGED <<config, moves, notDrive>>

----------------------------------------------------------------------------
(* Vectors, norms and exp for the pedestrian forces *)

VAdd(u, v) == <<u[1] + v[1], u[2] + v[2]>>
VSub(u, v) == <<u[1] - v[1], u[2] - v[2]>>
Zero2 == <<0, 0>>

\* The integer square root of n >= 0, by bisection on [lo, hi]
RECURSIVE ISqrtIn(_, _, _)
ISqrtIn(n, lo, hi) ==
    IF lo >= hi THEN lo
    ELSE LET mid == (lo + hi + 1) \div 2
         IN  IF mid * mid <= n THEN ISqrtIn(n, mid, hi) ELSE ISqrtIn(n, lo, mid - 1)

\* np.linalg.norm of one vector (rounded down); large vectors are scaled down
\* before squaring so that the squares stay in range
RECURSIVE Norm(_)
Norm(v) ==
    IF Max(Abs(v[1]), Abs(v[2])) >= 8 * Scale
    THEN 64 * Norm(<<Quot(v[1], 64), Quot(v[2], 64)>>)
    ELSE ISqrtIn(v[1] * v[1] + v[2] * v[2], 0, 12 * Scale)

\* norm(v) > t, decided on the squares (exact also between two fixed-point values)
NormGreater(v, t) ==
    \/ t < 0
    \/ Max(Abs(v[1]), Abs(v[2])) > t
    \/ v[1] * v[1] + v[2] * v[2] > t * t

\* math.e in fixed point and exp on [0, 1) (Taylor polynomial of degree 6)
Euler == (2721 * Scale) \div 1001
ExpSeries(f) ==
    LET f2 == Mul(f, f)
        f3 == Mul(f2, f)
        f4 == Mul(f3, f)
        f5 == Mul(f4, f)
        f6 == Mul(f5, f)
    IN  Scale + f + Quot(f2, 2) + Quot(f3, 6) + Quot(f4, 24) + Quot(f5, 120)
        + Quot(f6, 720)

\* a * b where a may be large: a loses its low bits before the product
MulWide(a, b) ==
    IF Abs(a) >= 32 * Scale THEN 64 * Quot(Quot(a, 64) * b, Scale) ELSE Mul(a, b)

\* The vector u times the scalar k
VScale(u, k) == <<MulWide(k, u[1]), MulWide(k, u[2])>>

\* x * e^n for an integer n
RECURSIVE TimesEulerPow(_, _)
TimesEulerPow(x, n) ==
    IF n = 0 THEN x
    ELSE IF n > 0 THEN TimesEulerPow(MulWide(x, Euler), n - 1)
    ELSE TimesEulerPow(Div(x, Euler), n + 1)

\* np.exp
Exp(t) ==
    LET n == t \div Scale
        f == t - n * Scale
    IN  TimesEulerPow(ExpSeries(f), n)

\* pysocialforce stateutils.normalize of one row: (direction, norm), with the
\* zero vector as the direction of a zero vector
RECURSIVE UnitVector(_)
UnitVector(v) ==
    IF Max(Abs(v[1]), Abs(v[2])) >= 8 * Scale
    THEN UnitVector(<<Quot(v[1], 64), Quot(v[2], 64)>>)
    ELSE LET n == Norm(v)
         IN  IF n = 0 THEN Zero2 ELSE <<Div(v[1], n), Div(v[2], n)>>

StateutilsNormalize(v) == [direction |-> UnitVector(v), norm |-> Norm(v)]

----------------------------------------------------------------------------
(* PedRobotForce *)

\* The sentinel position [[1e5, 1e5]] set by __init__
FarAway == <<100000 * Scale, 100000 * Scale>>

\* _get_force, the body of the loop for the pedestrian at p: robot_state holds
\* one row, so np.all, the mask and the sum range over that single row
PedRobotForceFor(cfg, robot, p) ==
    LET sigma == cfg.sigma
        threshold == cfg.activation_treshold + cfg.agent_radius
        n == StateutilsNormalize(VSub(p, robot))
        dist == n.norm - cfg.agent_radius - cfg.robot_radius
    IN  IF dist >= threshold THEN Zero2
        ELSE VScale(n.direction, Exp(Div(-dist, sigma)))

\* The same on this object's own configuration and robot_state
PedRobotForceOf(p) == PedRobotForceFor(force_cfg, robot_state, p)

\* PedRobotForce._get_force
PedRobotForceGetForce ==
    [i \in DOMAIN peds_pos |->
        VScale(PedRobotForceOf(peds_pos[i]), force_cfg.force_multiplier)]

\* PedRobotForce.updateRobotState
UpdateRobotState(pos) ==
    /\ robot_state' = pos
    /\ force_kind' = "none"
    /\ force' = [i \in DOMAIN peds_pos |-> Zero2]
    /\ UNCHANGED <<peds_pos, groups, force_cfg, notForce>>

GetPedRobotForce ==
    /\ force_kind' = "PedRobotForce"
    /\ force' = PedRobotForceGetForce
    /\ UNCHANGED <<peds_pos, groups, force_cfg, robot_state, notForce>>

----------------------------------------------------------------------------
(* GroupRepulsiveForce *)

\* pysocialforce stateutils.each_diff: vec_diff is expand_dims(vecs, 1) -
\* expand_dims(vecs, 0), so the rows are vecs[a] - vecs[b] (own position minus
\* the other member's; the remark "others - self" at the call has it the other
\* way round), with the diagonal removed, ordered by a, then b
EachDiff(vecs) ==
    LET size == Len(vecs)
    IN  [k \in 1..(size * (size - 1)) |->
            LET a == ((k - 1) \div (size - 1)) + 1
                j == ((k - 1) % (size - 1)) + 1
                b == IF j < a THEN j ELSE j + 1
            IN  VSub(vecs[a], vecs[b])]

RECURSIVE SumRows(_, _, _)
SumRows(rows, from, to) ==
    IF from > to THEN Zero2 ELSE VAdd(rows[from], SumRows(rows, from + 1, to))

\* The contribution of one group with the distance mask left out
GroupTermsUnmasked(group, threshold) ==
    LET size == Len(group)
        diff == EachDiff([a \in 1..size |-> peds_pos[group[a]]])
    IN  [a \in 1..size |-> SumRows(diff, (a - 1) * (size - 1) + 1, a * (size - 1))]

\* The body of the loop over the groups: the per-member sums of one group,
\* np.sum(diff.reshape((size, -1, 2)), axis=1), after diff[norms > threshold] = 0
GroupTerms(group, threshold) ==
    LET size == Len(group)
        member_pos == [a \in 1..size |-> peds_pos[group[a]]]
        diff == EachDiff(member_pos)
        masked == [k \in DOMAIN diff |->
                      IF NormGreater(diff[k], threshold) THEN Zero2 ELSE diff[k]]
    IN  [a \in 1..size |-> SumRows(masked, (a - 1) * (size - 1) + 1, a * (size - 1))]

\* forces[group, :] += terms
AddAt(forces, group, terms) ==
    [i \in DOMAIN forces |->
        IF \E a \in DOMAIN group : group[a] = i
        THEN VAdd(forces[i], terms[CHOOSE a \in DOMAIN group : group[a] = i])
        ELSE forces[i]]

RECURSIVE GroupLoop(_, _, _)
GroupLoop(forces, g, threshold) ==
    IF g > Len(groups) THEN forces
    ELSE GroupLoop(AddAt(forces, groups[g], GroupTerms(groups[g], threshold)),
                   g + 1, threshold)

\* GroupRepulsiveForce._get_force
GroupRepulsiveForceGetForce ==
    LET threshold == force_cfg.threshold
        forces == GroupLoop([i \in DOMAIN peds_pos |-> Zero2], 1, threshold)
    IN  [i \in DOMAIN peds_pos |-> VScale(forces[i], force_cfg.factor)]

GetGroupRepulsiveForce ==
    /\ force_kind' = "GroupRepulsiveForce"
    /\ force' = GroupRepulsiveForceGetForce
    /\ UNCHANGED <<peds_pos, groups, force_cfg, robot_state, notForce>>

(* Inputs *)

NumPeds == 3

QuarterUnit == Scale \div 4

\* Pedestrian positions: 0.75 apart on the x axis from (2.25, 0), and (0, 0.5)
PedPositions ==
    {<<9 * QuarterUnit, 0>>, <<3 * Scale, 0>>, <<15 * QuarterUnit, 0>>, <<0, HalfUnit>>}

RobotPositions == {<<0, 0>>, <<0, HalfUnit>>, <<5 * Scale, 0>>}

\* agent_radius is the pedestrians' radius, sigma the config value "sigma" (a
\* dyadic value near its default 0.2), threshold and factor the config of the
\* group force (defaults 0.5 and 1.0); the rest is PedRobotForce.__init__
DefaultForceCfg ==
    [robot_radius |-> Scale, activation_treshold |-> HalfUnit,
     force_multiplier |-> Scale, agent_radius |-> HalfUnit, sigma |-> QuarterUnit,
     threshold |-> HalfUnit, factor |-> Scale]

ForceCfgs ==
    {DefaultForceCfg,
     [DefaultForceCfg EXCEPT !.activation_treshold = Scale, !.force_multiplier = 2 * Scale,
                             !.threshold = Scale, !.factor = 2 * Scale],
     [DefaultForceCfg EXCEPT !.agent_radius = QuarterUnit, !.threshold = 3 * QuarterUnit]}

\* No groups; a pair; all pedestrians in one group; a pair and a group of one
GroupChoices ==
    {<< >>, <<<<1, 2>>>>, <<[a \in 1..NumPeds |-> a]>>, <<<<2, 3>>, <<1>>>>}

----------------------------------------------------------------------------
(* RobotEnv.__init__ and RobotEnv._get_obs *)

\* sim_env_test.box_size and sim_env_test.peds.step_width of a default
\* ExtdSimulator: half the side of the map (10) and the simulator's time step
BoxSize == 10 * Scale
DefaultStepWidth == HalfUnit

\* np.sqrt(2)
Sqrt2 == ISqrtIn(2 * Scale * Scale, 0, 2 * Scale)

\* An omitted dt is None, written as the empty sequence; a given dt is <<dt>>
EnvArgs ==
    [lidar_n_rays : {2, 3},
     lidar_range : {Scale, 10 * Scale},
     v_linear_max : {-Scale, 0, Scale, 2 * Scale},
     v_angular_max : {-Scale, 0, HalfUnit, Scale},
     dt : {<< >>, <<HalfUnit>>, <<Scale>>},
     normalize_obs_state : BOOLEAN,
     sim_length : {Scale, 2 * Scale}]

DefaultEnvArgs ==
    [lidar_n_rays |-> 2, lidar_range |-> 10 * Scale, v_linear_max |-> Scale,
     v_angular_max |-> Scale, dt |-> << >>, normalize_obs_state |-> TRUE,
     sim_length |-> 2 * Scale]

\* spaces.Box(low, high): the shape is the shape of the bounds
Box(low, high) == [type |-> "Box", low |-> low, high |-> high, shape |-> <<Len(low)>>]

\* RobotEnv.__init__: the fields of the new environment.  None of the arguments
\* is compared with anything: the values are stored as they come.
RobotEnvInit(args) ==
    LET lidar_range == args.lidar_range
        linear_max == args.v_linear_max
        angular_max == args.v_angular_max
        target_distance_max == Mul(Sqrt2, BoxSize * 2)
        n == args.lidar_n_rays
        state_max == [k \in 1..n |-> lidar_range]
                     \o <<linear_max, angular_max, target_distance_max, Pi>>
        state_min == [k \in 1..n |-> 0] \o <<0, -angular_max, 0, -Pi>>
    IN  [constructed |-> TRUE,
         lidar_range |-> lidar_range,
         closest_obstacle |-> lidar_range,
         sim_length |-> args.sim_length,
         normalize_obs_state |-> args.normalize_obs_state,
         linear_max |-> linear_max,
         angular_max |-> angular_max,
         target_distance_max |-> target_distance_max,
         dt |-> IF args.dt = << >> THEN DefaultStepWidth ELSE args.dt[1],
         lidar_n_rays |-> n,
         observation_space |-> Box(state_min, state_max)]

\* No environment yet
NoEnvCfg == [RobotEnvInit(DefaultEnvArgs) EXCEPT !.constructed = FALSE]

\* env = RobotEnv(...)
ConstructEnv(args) ==
    /\ ~env_cfg.constructed
    /\ env_args' = args
    /\ env_cfg' = RobotEnvInit(args)
    /\ UNCHANGED <<step_log, obs, driveVars, forceVars, envVars, notSim>>

\* math.atan on [0, 1]: z * (pi/4 + 0.273 * (1 - z)), within 0.004 of the arc tangent
AtanUnit(z) == Mul(z, Quot(Pi, 4) + Mul((273 * Scale) \div 1000, Scale - z))

\* math.atan2
Atan2(y, x) ==
    IF x = 0 /\ y = 0 THEN 0
    ELSE LET ax == Abs(x)
             ay == Abs(y)
             a == IF ax >= ay THEN AtanUnit(Div(ay, ax)) ELSE HalfPi - AtanUnit(Div(ax, ay))
             b == IF x < 0 THEN Pi - a ELSE a
         IN  IF y < 0 THEN -b ELSE b

\* RobotPose.target_rel_position(target): the distance to the target and its
\* bearing relative to the heading
TargetRelPosition(pose, target) ==
    LET d == <<target[1] - pose.x, target[2] - pose.y>>
    IN  <<Norm(d), Atan2(d[2], d[1]) - pose.orient>>

\* _get_obs: the pair (ranges, drive state) it returns, and closest_obstacle
GetObs(cfg, ranges_np, robot, target) ==
    LET speed_x == robot.velocity[1]
        speed_rot == robot.velocity[2]
        rel == TargetRelPosition(robot.pose, target)
        normalized == cfg.normalize_obs_state
        ranges_out == IF normalized
                      THEN [k \in DOMAIN ranges_np |-> Div(ranges_np[k], cfg.lidar_range)]
                      ELSE ranges_np
        rob_state == IF normalized
                     THEN <<Div(speed_x, cfg.linear_max),
                            Div(speed_rot, cfg.angular_max),
                            Div(rel[1], cfg.target_distance_max),
                            Div(rel[2], Pi)>>
                     ELSE <<speed_x, speed_rot, rel[1], rel[2]>>
    IN  [type |-> "tuple", items |-> <<ranges_out, rob_state>>]

\* np.amin of a non-empty array
RECURSIVE Amin(_, _)
Amin(arr, k) ==
    IF k = Len(arr) THEN arr[k] ELSE Min(arr[k], Amin(arr, k + 1))

\* Nothing returned yet
NoObs == [type |-> "none", items |-> << >>]

\* Map coordinates (units of 0.1) as fixed-point numbers, and back (rounded down)
ToFixed(c) == (c * Scale) \div 10
FromFixed(v) == (v * 10) \div Scale

\* A sampled pose (x, y, orient) and a sampled target as the robot's pose and
\* its goal
PoseOf(pose) == [x |-> ToFixed(pose[1]), y |-> ToFixed(pose[2]), orient |-> ToFixed(pose[3])]
TargetOf(target) == <<ToFixed(target[1]), ToFixed(target[2])>>

\* initialize_robot: the settings of the robot the factory builds, with the
\* speed limits of the environment
RobotFactoryConfig(cfg) ==
    [radius |-> Scale, max_linear_speed |-> cfg.linear_max,
     max_angular_speed |-> cfg.angular_max,
     wheel_radius |-> Scale, interaxis_length |-> Scale]

\* LidarScanner.get_scan: one reading per ray, each within the range; what the
\* rays hit is decided by the scanner, here by the choice of the reading
FreeScan(cfg) == [k \in 1..cfg.lidar_n_rays |-> cfg.lidar_range]

ScanSamples(cfg) ==
    {FreeScan(cfg),
     [k \in 1..cfg.lidar_n_rays |-> IF k = 1 THEN Quot(cfg.lidar_range, 2)
                                     ELSE cfg.lidar_range]}

----------------------------------------------------------------------------
(* RobotEnv.reset and _pick_robot_spawn_and_target_pos *)
(* Map coordinates are integers in units of 0.1.                           *)

\* None
None == << >>

\* count >= 100 (line 215), 1.5 (line 224), margin=0.2 (line 218), / 20 and / 2
AttemptBudget == 100
SpawnClearance == 15
ValidityMargin == 2
ClearanceDivisor == 20
GoalDistanceDivisor == 2

SqDist(p, q) == (p[1] - q[1]) * (p[1] - q[1]) + (p[2] - q[2]) * (p[2] - q[2])

\* self.map_boundaries_factory(robot_map) = robot_map.position_bounds(initial_margin):
\* the extent of the map drawn in by the margin on each side
LowBound(m) == <<m.world_low[1] + m.initial_margin, m.world_low[2] + m.initial_margin>>
HighBound(m) == <<m.world_high[1] - m.initial_margin, m.world_high[2] - m.initial_margin>>

\* high_bound[0] - low_bound[0]
BoundsWidth(m) == HighBound(m)[1] - LowBound(m)[1]

\* np.linalg.norm(robot_map.obstacle_coordinates - target_coords) squared: no
\* axis is given, so this is the norm of the whole difference matrix, the root
\* of the sum over all obstacle coordinates of their squared distances
RECURSIVE SumSqDist(_, _, _)
SumSqDist(coords, k, target) ==
    IF k > Len(coords) THEN 0
    ELSE SqDist(coords[k], target) + SumSqDist(coords, k + 1, target)

\* np.amin(dists) > min_distance, with min_distance = width / 20, on the squares
GoalAccepted(m, target) ==
    ClearanceDivisor * ClearanceDivisor * SumSqDist(m.obstacle_coordinates, 1, target)
        > BoundsWidth(m) * BoundsWidth(m)

\* count >= 101 where the code has count >= 100
BudgetExhaustedLate(c) == c >= AttemptBudget + 1

\* count >= 100
BudgetExhausted(c) == c >= AttemptBudget

\* robot_map.is_collision(pos, clearance): an occupied coordinate closer than
\* the clearance
IsCollision(m, pos, clearance) ==
    \E k \in DOMAIN m.obstacle_coordinates :
        SqDist(m.obstacle_coordinates[k], pos) < clearance * clearance

\* check_out_of_bounds: not robot_map.check_if_valid_world_coordinates(coords, margin)
CheckOutOfBounds(m, pos, margin) ==
    ~(/\ m.world_low[1] + margin <= pos[1] /\ pos[1] <= m.world_high[1] - margin
      /\ m.world_low[2] + margin <= pos[2] /\ pos[2] <= m.world_high[2] - margin)

\* The condition of the while loop at line 224: the pose is drawn again
SpawnRejected(m, pose, target) ==
    \/ IsCollision(m, <<pose[1], pose[2]>>, SpawnClearance)
    \/ CheckOutOfBounds(m, <<pose[1], pose[2]>>, ValidityMargin)
    \/ GoalDistanceDivisor * GoalDistanceDivisor * SqDist(pose, target)
           < BoundsWidth(m) * BoundsWidth(m)

\* RobotPose.target_rel_position(target)[0]: the distance to the target, rounded down
TargetDistance(pose, target) == ISqrtIn(SqDist(pose, target), 0, 512)

NoResetLog ==
    [resets |-> 0, saved_target |-> None, saved_robot |-> None,
     goal_draws |-> 0, spawn_sampled |-> FALSE]

\* reset(), lines 188-189 and the head of _pick_robot_spawn_and_target_pos
\* (lines 203-205)
MaxResets == 2

ResetBegin ==
    /\ reset_pc \in {"idle", "returned", "raised"}
    /\ reset_log.resets < MaxResets
    /\ env' = [env EXCEPT !.duration = 0, !.rotation_counter = 0]
    /\ count' = 0
    /\ reset_pc' = "goal"
    /\ reset_log' = [resets |-> reset_log.resets + 1,
                     saved_target |-> env.target_coords, saved_robot |-> env.robot,
                     goal_draws |-> 0, spawn_sampled |-> FALSE]
    /\ UNCHANGED <<robot_map, target_cand, robot_pose, notEnv>>

\* One pass of the loop at lines 206-216 with the candidate drawn by
\* np.random.uniform
GoalSample(cand) ==
    /\ reset_pc = "goal"
    /\ target_cand' = cand
    /\ reset_log' = [reset_log EXCEPT !.goal_draws = @ + 1]
    /\ IF GoalAccepted(robot_map, cand)
       THEN /\ reset_pc' = "spawn"
            /\ count' = count
       ELSE /\ count' = count + 1
            /\ reset_pc' = IF BudgetExhausted(count + 1) THEN "raised" ELSE "goal"
    /\ UNCHANGED <<robot_map, env, robot_pose, notEnv>>

\* A pose drawn at line 219 or 226 that the loop condition at line 224 rejects
SpawnRetry(pose) ==
    /\ reset_pc = "spawn"
    /\ SpawnRejected(robot_map, pose, target_cand)
    /\ robot_pose' = pose
    /\ reset_log' = [reset_log EXCEPT !.spawn_sampled = TRUE]
    /\ UNCHANGED <<robot_map, env, reset_pc, count, target_cand, notEnv>>

\* A pose that passes the loop condition: the function returns and reset()
\* stores the target, the robot and the initial distance (lines 191-199)
SpawnAccept(pose, ranges) ==
    /\ reset_pc = "spawn"
    /\ ~SpawnRejected(robot_map, pose, target_cand)
    /\ robot_pose' = pose
    /\ reset_log' = [reset_log EXCEPT !.spawn_sampled = TRUE]
    /\ env' = [env EXCEPT !.target_coords = target_cand, !.robot = pose,
                          !.distance_init = TargetDistance(pose, target_cand)]
    /\ reset_pc' = "returned"
    \* self.robot = self.robot_factory(self.robot_map, robot_pose)
    /\ config' = RobotFactoryConfig(env_cfg)
    /\ state' = NewState(PoseOf(pose))
    \* return self._get_obs(self.robot.get_scan())
    /\ obs' = GetObs(env_cfg, ranges, NewState(PoseOf(pose)), TargetOf(target_cand))
    /\ env_cfg' = [env_cfg EXCEPT !.closest_obstacle = Amin(ranges, 1)]
    /\ UNCHANGED <<robot_map, count, target_cand, origin, moves, hist, env_args,
                   step_log, forceVars, notSim>>

(* Inputs *)

\* A map: the extent of the world, the margin of position_bounds, the obstacle
\* coordinates, and the finite sample of the box that the uniform draws are
\* taken from
OpenMap ==
    [world_low |-> <<0, 0>>, world_high |-> <<200, 200>>, initial_margin |-> 3,
     obstacle_coordinates |-> <<<<100, 100>>>>,
     samples |-> {<<100, 100>>, <<100, 109>>, <<100, 115>>, <<3, 3>>, <<197, 197>>},
     orients |-> {0, 3}]

\* Two obstacle coordinates far apart
TwoObstacleMap ==
    [OpenMap EXCEPT !.obstacle_coordinates = <<<<50, 50>>, <<150, 150>>>>,
                    !.samples = {<<50, 50>>, <<150, 150>>, <<3, 197>>, <<100, 100>>}]

\* A map of 2.6 x 2.6 with an obstacle in the middle: every point of it is
\* closer than 1.5 to the obstacle
CrowdedMap ==
    [world_low |-> <<0, 0>>, world_high |-> <<26, 26>>, initial_margin |-> 3,
     obstacle_coordinates |-> <<<<13, 13>>>>,
     samples |-> {<<3, 3>>, <<13, 13>>, <<23, 23>>, <<13, 14>>},
     orients |-> {0}]

\* A map without obstacles
EmptyMap ==
    [OpenMap EXCEPT !.obstacle_coordinates = << >>,
                    !.samples = {<<3, 3>>, <<100, 100>>, <<197, 197>>}]

EnvMaps == {OpenMap, TwoObstacleMap, CrowdedMap, EmptyMap}

\* RobotEnv.__init__: robot and target_coords are None until reset()
NewEnv ==
    [duration |-> 0, rotation_counter |-> 0, target_coords |-> None,
     robot |-> None, distance_init |-> 0]

----------------------------------------------------------------------------
(* RobotEnv.step and RobotEnv._reward *)

\* ExtdSimulator.step(1): every pedestrian is displaced by the force the robot
\* exerts on it over one time step, the robot being where move_robot put it
SimStep(cfg, robot, peds, dt) ==
    [i \in DOMAIN peds |->
        VAdd(peds[i],
             VScale(VScale(PedRobotForceFor(cfg, robot, peds[i]), cfg.force_multiplier),
                    dt))]

\* The robot's position in map coordinates
MapPos(pose) == <<FromFixed(pose.x), FromFixed(pose.y)>>

\* robot.is_pedestrians_collision(threshold): a pedestrian whose gap to the
\* robot (center distance minus both radii) is below the threshold
IsPedestriansCollision(cfg, peds, pose, threshold) ==
    \E i \in DOMAIN peds :
        Norm(VSub(peds[i], <<pose.x, pose.y>>)) - cfg.agent_radius - cfg.robot_radius
            < threshold

\* robot.is_obstacle_collision(radius) and robot.is_out_of_bounds(margin = 0.01)
IsObstacleCollision(m, pose, radius) == IsCollision(m, MapPos(pose), FromFixed(radius))
IsOutOfBounds(m, pose) == CheckOutOfBounds(m, MapPos(pose), 0)

\* robot.is_target_reached(target, tolerance)
IsTargetReached(pose, target, tolerance) ==
    ~NormGreater(<<target[1] - pose.x, target[2] - pose.y>>, tolerance)

\* _reward without the test of the duration
RewardBranchUntimed(cfg, fcfg, m, duration, robot, peds, target) ==
    IF \/ IsPedestriansCollision(fcfg, peds, robot.pose, ToFixed(8))
       \/ IsObstacleCollision(m, robot.pose, robot.config.radius)
       \/ IsOutOfBounds(m, robot.pose)
    THEN "failed"
    ELSE IF IsTargetReached(robot.pose, target, Scale) THEN "reached"
    ELSE "running"

\* _reward: which of its three branches is taken ("failed": collision, out of
\* bounds or time expired; "reached": target reached; "running": neither).
\* The first two return done = True, the third adds dt to duration and returns
\* done = False.  The reward value itself is left out.
RewardBranch(cfg, fcfg, m, duration, robot, peds, target) ==
    IF \/ IsPedestriansCollision(fcfg, peds, robot.pose, ToFixed(8))
       \/ IsObstacleCollision(m, robot.pose, robot.config.radius)
       \/ IsOutOfBounds(m, robot.pose)
       \/ duration > cfg.sim_length
    THEN "failed"
    ELSE IF IsTargetReached(robot.pose, target, Scale) THEN "reached"
    ELSE "running"

NoStepLog ==
    [steps |-> 0, action |-> <<0, 0>>, pose_before |-> Origin, pose_after |-> Origin,
     peds_before |-> << >>, scan_pose |-> Origin, scan_peds |-> << >>,
     outcome |-> "none", done |-> FALSE,
     episode |-> 0, running |-> 0, duration_before |-> 0]

MaxSteps == 3

\* RobotEnv.step(action_np), with the readings get_scan returns
EnvStep(action_np, ranges) ==
    /\ reset_pc = "returned"
    /\ step_log.steps < MaxSteps
    /\ LET \* lines 139-142: the simulator is given the robot's pose, integrates
           \* the pedestrians, and the map takes the new positions
           coords_with_direction == state.pose
           told == <<coords_with_direction.x, coords_with_direction.y>>
           peds_after == SimStep(force_cfg, told, peds_pos, env_cfg.dt)
           \* lines 144-148: the action is applied to the robot
           target == TargetOf(env.target_coords)
           moved == MoveResult(config, state, action_np, env_cfg.dt)
           dot_orient == moved.velocity[2]
           \* line 156
           branch == RewardBranch(env_cfg, force_cfg, robot_map, env.duration,
                                  [pose |-> moved.pose, config |-> config],
                                  peds_after, target)
       IN  /\ robot_state' = told
           /\ peds_pos' = peds_after
           /\ state' = moved
           \* lines 151-153: the scan, the observation, the rotation counter
           /\ obs' = GetObs(env_cfg, ranges, moved, target)
           /\ env_cfg' = [env_cfg EXCEPT !.closest_obstacle = Amin(ranges, 1)]
           /\ env' = [env EXCEPT
                         !.rotation_counter = @ + Abs(Mul(dot_orient, env_cfg.dt)),
                         !.duration = IF branch = "running" THEN @ + env_cfg.dt ELSE @]
           /\ step_log' = [steps |-> step_log.steps + 1, action |-> action_np,
                           pose_before |-> state.pose, pose_after |-> moved.pose,
                           peds_before |-> peds_pos,
                           scan_pose |-> moved.pose, scan_peds |-> peds_after,
                           outcome |-> branch, done |-> branch # "running",
                           \* the reset this step follows, the steps since it
                           \* that returned done = False, self.duration as
                           \* _reward found it
                           episode |-> reset_log.resets,
                           running |-> (IF step_log.episode = reset_log.resets
                                        THEN step_log.running ELSE 0)
                                       + (IF branch = "running" THEN 1 ELSE 0),
                           duration_before |-> env.duration]
    /\ UNCHANGED <<config, origin, moves, hist, groups, force_cfg, force_kind, force,
                   robot_map, reset_pc, count, target_cand, robot_pose, reset_log,
                   env_args, notSim>>

(* Inputs *)

\* A map on which every sampled goal is accepted: the obstacle in the middle,
\* the samples 9.7 apart on the line y = 11.5
StepMap ==
    [OpenMap EXCEPT !.samples = {<<100, 115>>, <<197, 115>>}, !.orients = {0}]

\* Constructor arguments with which reset() can build the robot
StepEnvArgs ==
    {DefaultEnvArgs,
     [DefaultEnvArgs EXCEPT !.dt = <<Scale>>, !.sim_length = Scale,
                            !.v_linear_max = 2 * Scale, !.lidar_n_rays = 3,
                            !.normalize_obs_state = FALSE]}

\* The pedestrians of the simulator: a row next to the spawn at (10, 11.5), the
\* first one 1.5 away from it, or a row far from both spawns
PedsNearSpawn == [i \in 1..NumPeds |-> <<10 * Scale, (13 + i - 1) * Scale>>]
PedsFarAway == [i \in 1..NumPeds |-> <<5 * Scale, (5 + i - 1) * Scale>>]
StepPeds == {PedsNearSpawn, PedsFarAway}

\* action_space.sample()
StepActions == {<<Scale, HalfUnit>>, <<HalfUnit, -HalfUnit>>}

----------------------------------------------------------------------------
(* SimulationView *)
(* Screen coordinates and sizes are integers.                              *)

\* SimulationView(width, height, scaling) after __post_init__: the window is
\* open, the flags are False, show() has not started the UI thread yet
NewView(width, height, scaling) ==
    [width |-> width, height |-> height, scaling |-> scaling,
     size_changed |-> FALSE,
     is_exit_requested |-> FALSE,
     is_abortion_requested |-> FALSE,
     display |-> "open",            \* pygame's display: "open" | "quit"
     window |-> <<width, height>>,  \* the size self.screen was created with
     ui_thread |-> "none",          \* "none" | "check" | "events" | "quit_seen"
                                    \* | "resize_seen" | "ended"
     sigint |-> "none",             \* the handler: "none" | "installed" | "running"
     main |-> "idle",               \* the calling thread: "idle" | "exit_join"
     process |-> "running"]         \* "running" | "exited"

\* p * scaling - offset, as the in-place *= and -= leave a point
ZoomPoint(p, scaling, offset) ==
    <<p[1] * scaling - offset[1], p[2] * scaling - offset[2]>>

ZoomSegment(seg, scaling, offset) ==
    <<ZoomPoint(seg[1], scaling, offset), ZoomPoint(seg[2], scaling, offset)>>

\* _zoom_camera: the state object after the call and the offset.  The arrays
\* are changed in place and the fields are assigned on the object that was
\* passed in; the object returned is that same object.
ZoomCamera(v, st) ==
    LET r == st.robot_pose[1]
        x_offset == r[1] * v.scaling - v.width \div 2
        y_offset == r[2] * v.scaling - v.height \div 2
        offset == <<x_offset, y_offset>>
        zoomed ==
            [timestep |-> st.timestep,
             pedestrian_positions |->
                 [k \in DOMAIN st.pedestrian_positions |->
                     ZoomPoint(st.pedestrian_positions[k], v.scaling, offset)],
             ped_actions |->
                 [k \in DOMAIN st.ped_actions |->
                     ZoomSegment(st.ped_actions[k], v.scaling, offset)],
             ray_vecs |->
                 [k \in DOMAIN st.ray_vecs |->
                     ZoomSegment(st.ray_vecs[k], v.scaling, offset)],
             robot_pose |-> <<ZoomPoint(r, v.scaling, offset), st.robot_pose[2]>>,
             action |->
                 [k \in DOMAIN st.action |->
                     [robot_pose |-> <<ZoomPoint(st.action[k].robot_pose[1], v.scaling,
                                                 offset),
                                       st.action[k].robot_pose[2]>>,
                      robot_action |-> st.action[k].robot_action,
                      robot_goal |-> ZoomPoint(st.action[k].robot_goal, v.scaling,
                                               offset)]]]
    IN  [state |-> zoomed, offset |-> offset]

NoVState ==
    [timestep |-> 0, pedestrian_positions |-> << >>, ped_actions |-> << >>,
     ray_vecs |-> << >>, robot_pose |-> <<<<0, 0>>, 0>>, action |-> << >>]

NoRenderLog == [renders |-> 0, before |-> NoVState, result |-> "none", offset |-> <<0, 0>>]

MaxRenders == 2

\* Lines 139-154 of render, on a display that is open or has been quit: a
\* resize or a drawing call on a display that has been quit raises pygame.error
RenderDraw(v, display) ==
    IF v.size_changed /\ display = "quit"
    THEN [view |-> [v EXCEPT !.display = display], state |-> vstate,
          result |-> "pygame.error", offset |-> <<0, 0>>]
    ELSE LET resized == IF v.size_changed
                        THEN [v EXCEPT !.window = <<v.width, v.height>>,
                                       !.size_changed = FALSE]
                        ELSE v
             zoom == ZoomCamera(resized, vstate)
         IN  [view |-> [resized EXCEPT !.display = display], state |-> zoom.state,
              result |-> IF display = "quit" THEN "pygame.error" ELSE "drawn",
              offset |-> zoom.offset]

\* SimulationView.render(state), called with the state object the caller holds
Render ==
    /\ view.process = "running" /\ view.main = "idle" /\ view.sigint # "running"
    /\ render_log.renders < MaxRenders
    \* self.ui_events_thread.join() returns when the UI thread has ended
    /\ view.is_exit_requested => view.ui_thread \in {"none", "ended"}
    /\ LET out ==
               IF ~view.is_exit_requested THEN RenderDraw(view, view.display)
               ELSE IF view.ui_thread = "none"
               THEN \* no ui_events_thread attribute before show()
                    [view |-> [view EXCEPT !.display = "quit"], state |-> vstate,
                     result |-> "AttributeError", offset |-> <<0, 0>>]
               ELSE IF view.is_abortion_requested
               THEN \* exit()
                    [view |-> [view EXCEPT !.display = "quit", !.process = "exited"],
                     state |-> vstate, result |-> "exit", offset |-> <<0, 0>>]
               ELSE RenderDraw(view, "quit")
       IN  /\ view' = out.view
           /\ vstate' = out.state
           /\ render_log' = [renders |-> render_log.renders + 1, before |-> vstate,
                             result |-> out.result, offset |-> out.offset]
    /\ UNCHANGED notView

\* show(): the UI thread starts and the SIGINT handler is installed
Show ==
    /\ view.process = "running" /\ view.main = "idle" /\ view.ui_thread = "none"
    /\ view' = [view EXCEPT !.ui_thread = "check", !.sigint = "installed"]
    /\ UNCHANGED <<vstate, render_log, notView>>

\* exit(): the flag is set, then the caller waits in join (before show() there
\* is no thread to join and the call ends with an AttributeError)
ExitRequest ==
    /\ view.process = "running" /\ view.main = "idle" /\ view.sigint # "running"
    /\ view' = [view EXCEPT !.is_exit_requested = TRUE,
                            !.main = IF view.ui_thread = "none" THEN "idle"
                                     ELSE "exit_join"]
    /\ UNCHANGED <<vstate, render_log, notView>>

ExitJoined ==
    /\ view.main = "exit_join" /\ view.ui_thread = "ended" /\ view.sigint # "running"
    /\ view' = [view EXCEPT !.main = "idle"]
    /\ UNCHANGED <<vstate, render_log, notView>>

\* handle_sigint with its two assignments exchanged: line 105 first
SigintAbortFirst ==
    /\ view.process = "running" /\ view.sigint = "installed"
    /\ view' = [view EXCEPT !.is_abortion_requested = TRUE, !.sigint = "running"]
    /\ UNCHANGED <<vstate, render_log, notView>>

\* handle_sigint, run by the main thread between two of its steps: line 104,
\* then line 105
SigintExit ==
    /\ view.process = "running" /\ view.sigint = "installed"
    /\ view' = [view EXCEPT !.is_exit_requested = TRUE, !.sigint = "running"]
    /\ UNCHANGED <<vstate, render_log, notView>>

SigintAbort ==
    /\ view.sigint = "running"
    /\ view' = [view EXCEPT !.is_abortion_requested = TRUE, !.sigint = "installed"]
    /\ UNCHANGED <<vstate, render_log, notView>>

\* _process_event_queue, line 114: the test of the while loop
UiCheck ==
    /\ view.process = "running" /\ view.ui_thread = "check"
    /\ view' = [view EXCEPT !.ui_thread = IF view.is_exit_requested THEN "ended"
                                          ELSE "events"]
    /\ UNCHANGED <<vstate, render_log, notView>>

\* lines 116-117 and 118: a QUIT event
UiQuitExit ==
    /\ view.process = "running" /\ view.ui_thread = "events"
    /\ view' = [view EXCEPT !.is_exit_requested = TRUE, !.ui_thread = "quit_seen"]
    /\ UNCHANGED <<vstate, render_log, notView>>

UiQuitAbort ==
    /\ view.process = "running" /\ view.ui_thread = "quit_seen"
    /\ view' = [view EXCEPT !.is_abortion_requested = TRUE, !.ui_thread = "events"]
    /\ UNCHANGED <<vstate, render_log, notView>>

\* lines 119-120 and 121: a VIDEORESIZE event with the new size
UiResizeFlag ==
    /\ view.process = "running" /\ view.ui_thread = "events"
    /\ view' = [view EXCEPT !.size_changed = TRUE, !.ui_thread = "resize_seen"]
    /\ UNCHANGED <<vstate, render_log, notView>>

UiResizeSize(w, h) ==
    /\ view.process = "running" /\ view.ui_thread = "resize_seen"
    /\ view' = [view EXCEPT !.width = w, !.height = h, !.ui_thread = "events"]
    /\ UNCHANGED <<vstate, render_log, notView>>

\* line 122: the events of this pass are handled, sleep, back to the test
UiSleep ==
    /\ view.process = "running" /\ view.ui_thread = "events"
    /\ view' = [view EXCEPT !.ui_thread = "check"]
    /\ UNCHANGED <<vstate, render_log, notView>>

(* Inputs *)

\* The default window (1200 x 800, scaling 15) and the size after a resize
DefaultView == NewView(1200, 800, 15)
ResizedSizes == {<<800, 600>>}

\* States to display: the robot alone; the robot with a pedestrian, its action
\* vector and a ray; the same with the robot's action and goal
RobotAlone == [NoVState EXCEPT !.robot_pose = <<<<1, 1>>, 0>>]
WithPedestrian ==
    [RobotAlone EXCEPT !.timestep = 1,
                       !.pedestrian_positions = <<<<2, 2>>>>,
                       !.ped_actions = <<<<<<2, 2>>, <<3, 2>>>>>>,
                       !.ray_vecs = <<<<<<1, 1>>, <<2, 2>>>>>>]
WithAction ==
    [WithPedestrian EXCEPT !.timestep = 2,
                           !.action = <<[robot_pose |-> <<<<1, 1>>, 0>>,
                                         robot_action |-> <<1, 0>>,
                                         robot_goal |-> <<5, 5>>]>>]
VStates == {RobotAlone, WithPedestrian, WithAction, [WithAction EXCEPT !.robot_pose = <<<<40, 0>>, 0>>]}

----------------------------------------------------------------------------
(* The map file parser *)

\* A map file text is written as what json.loads makes of it: whether it is
\* JSON at all, the keys of the top-level object and, for every entry of
\* 'Obstacles' in the order of the file, its keys and its 'Vertex' list
RequiredToplevelKeys == {"Obstacles", "x_margin", "y_margin"}
RequiredObstacleKeys == {"ID", "Vertex"}
ObsoleteV0ToplevelKeys == {"NumberObstacles", "Created"}
ObsoleteV0ObstacleKeys == {"Edges"}

\* determine_mapfile_version: << >> for None, else <<"v0">> or <<"v1">>
DetermineMapfileVersion(text) ==
    IF ~text.is_json THEN << >>
    ELSE IF ~(RequiredToplevelKeys \subseteq text.keys) THEN << >>
    ELSE IF \E k \in DOMAIN text.obstacles :
                ~(RequiredObstacleKeys \subseteq text.obstacles[k].keys)
    THEN << >>
    ELSE IF ObsoleteV0ToplevelKeys \cap text.keys # {} THEN <<"v0">>
    ELSE IF \E k \in DOMAIN text.obstacles :
                ObsoleteV0ObstacleKeys \cap text.obstacles[k].keys # {}
    THEN <<"v0">>
    ELSE <<"v1">>

\* list(zip(vertices[:-1], vertices[1:])) + [(vertices[-1], vertices[0])] of a
\* non-empty vertex list, each edge as the line [s_x, e_x, s_y, e_y]
ObstacleLines(vertices) ==
    LET n == Len(vertices)
    IN  [k \in 1..n |->
            LET s == vertices[k]
                e == IF k < n THEN vertices[k + 1] ELSE vertices[1]
            IN  <<s[1], e[1], s[2], e[2]>>]

RECURSIVE AllLines(_, _)
AllLines(obstacles, k) ==
    IF k > Len(obstacles) THEN << >>
    ELSE ObstacleLines(obstacles[k].Vertex) \o AllLines(obstacles, k + 1)

\* parse_mapfile_text_v0: an empty vertex list raises IndexError at
\* vertices[-1], and the except clause turns every error into None
ParseMapfileTextV0(text) ==
    IF ~text.is_json THEN << >>
    ELSE IF \E k \in DOMAIN text.obstacles : Len(text.obstacles[k].Vertex) = 0
    THEN << >>
    ELSE <<[x_margin |-> text.x_margin, y_margin |-> text.y_margin,
            obstacles |-> AllLines(text.obstacles, 1)]>>

\* parse_mapfile_text: both versions are parsed by parse_mapfile_text_v0
ParseMapfileTextOf(text) ==
    IF DetermineMapfileVersion(text) = << >> THEN << >> ELSE ParseMapfileTextV0(text)

NoText ==
    [is_json |-> FALSE, keys |-> {}, obstacles |-> << >>,
     x_margin |-> <<0, 0>>, y_margin |-> <<0, 0>>]

ParseMapfileText(text) ==
    /\ map_text = NoText
    /\ text # NoText
    /\ map_text' = text
    /\ map_config' = ParseMapfileTextOf(text)
    /\ UNCHANGED notParse

(* Inputs *)

\* Vertex lists of up to MaxVertices vertices over two points
MaxVertices == 3
VertexPoints == {<<0, 0>>, <<1, 0>>}
VertexLists == UNION {[1..n -> VertexPoints] : n \in 0..MaxVertices}

ObstacleEntries ==
    [keys : {RequiredObstacleKeys, RequiredObstacleKeys \cup {"Edges"}, {"Vertex"}},
     Vertex : VertexLists]

\* Texts with no, one or two obstacles
MapTexts ==
    [is_json : BOOLEAN,
     keys : {RequiredToplevelKeys, RequiredToplevelKeys \cup {"Created"},
             {"Obstacles", "x_margin"}},
     obstacles : UNION {[1..n -> ObstacleEntries] : n \in 0..2},
     x_margin : {<<0, 10>>},
     y_margin : {<<0, 10>>}]

----------------------------------------------------------------------------
(* DynamicsExtractor *)

Min4(a, b, c, d) == Min(Min(a, b), Min(c, d))

\* The number of tuples zip(in_channels, out_channels, kernel_sizes,
\* dropout_rates) yields: in_channels is [rays_space.shape[0]] + num_filters[:-1]
NumBlocks(args) ==
    LET in_channels == 1 + Max(Len(args.num_filters) - 1, 0)
    IN  Min4(in_channels, Len(args.num_filters),
             Len(args.kernel_sizes), Len(args.dropout_rates))

\* padding(kernel_size) of the blocks that are built
PaddingRaises(kernel_size) == kernel_size % 2 = 0

\* DynamicsExtractor.__init__: how the constructor ends, with the number of
\* convolution blocks of the extractor it built
DynamicsExtractorInit(args) ==
    IF args.use_ray_conv /\ Len(args.num_filters) < 4
    THEN [result |-> "IndexError", message |-> "list index out of range",
          blocks |-> 0]
    ELSE IF args.use_ray_conv
            /\ \E k \in 1..NumBlocks(args) : PaddingRaises(args.kernel_sizes[k])
    THEN [result |-> "ValueError", message |-> "kernel size must be odd!",
          blocks |-> 0]
    ELSE [result |-> "constructed", message |-> "",
          blocks |-> IF args.use_ray_conv THEN NumBlocks(args) ELSE 0]

NoExtractorArgs ==
    [use_ray_conv |-> FALSE, num_filters |-> << >>, kernel_sizes |-> << >>,
     dropout_rates |-> << >>]
NoExtractor == [result |-> "none", message |-> "", blocks |-> 0]

ConstructExtractor(args) ==
    /\ extractor.result = "none"
    /\ extractor_args' = args
    /\ extractor' = DynamicsExtractorInit(args)
    /\ UNCHANGED notExtractor

(* Inputs *)

\* Kernel size lists of up to MaxKernels entries, even and odd
MaxKernels == 4
KernelSizes == {2, 3}
KernelLists == UNION {[1..n -> KernelSizes] : n \in 0..MaxKernels}

\* The default lists, a shorter and a longer one; dropout rates in percent
ExtractorArgs ==
    [use_ray_conv : BOOLEAN,
     num_filters : {<<64, 16, 16, 16>>, <<64, 16>>, <<64, 16, 16, 16, 16>>},
     kernel_sizes : KernelLists,
     dropout_rates : {<<30, 30, 30, 30>>, <<30>>}]

----------------------------------------------------------------------------
(* DesiredForce *)

\* normalize of extender_force.py on one row: (direction, norm). The 1e-8
\* added to the norm is below the resolution; it makes the direction of the
\* zero vector the zero vector
Normalize(v) == [direction |-> UnitVector(v), norm |-> Norm(v)]

\* The float NaN, and the operations that can meet it. A norm is zero only
\* for the zero vector, so the only division by zero is 0 / 0
NaN == -1073741824
FDiv(a, b) == IF a = NaN \/ b = NaN \/ b = 0 THEN NaN ELSE Div(a, b)
FMul(a, b) == IF a = NaN \/ b = NaN THEN NaN ELSE Mul(a, b)
FAdd(a, b) == IF a = NaN \/ b = NaN THEN NaN ELSE a + b
NanToNum(x) == IF x = NaN THEN 0 ELSE x

\* change_direction: for the pedestrians whose line of sight to the goal is
\* blocked the direction is turned by one of the candidate angles; the others
\* keep theirs. cd names the pedestrians and the turn
Turned(d, turn) ==
    IF turn = "left" THEN <<-d[2], d[1]>>
    ELSE IF turn = "right" THEN <<d[2], -d[1]>>
    ELSE <<-d[1], -d[2]>>

ChangeDirection(direction, cd) ==
    [i \in DOMAIN direction |->
        IF i \in cd.indices THEN Turned(direction[i], cd.turn) ELSE direction[i]]

\* The mask with dist >= goal_threshold
BeyondGoalThresholdInclusive(cfg, row) ==
    LET d == VSub(row.goal, row.pos)
    IN  d[1] * d[1] + d[2] * d[2] >= cfg.goal_threshold * cfg.goal_threshold

\* The mask dist > goal_threshold of one pedestrian
BeyondGoalThreshold(cfg, row) ==
    NormGreater(VSub(row.goal, row.pos), cfg.goal_threshold)

\* force before the avoidance block: the masked assignments, then
\* force /= relexation_time
RawDesiredForce(cfg, row, direction) ==
    LET f == IF BeyondGoalThreshold(cfg, row)
             THEN VSub(VScale(direction, row.max_speed), row.vel)
             ELSE VSub(Zero2, row.vel)
    IN  <<Div(f[1], cfg.relaxation_time), Div(f[2], cfg.relaxation_time)>>

\* previous_directions without np.nan_to_num
PreviousDirectionUnguarded(vel) ==
    LET n == Norm(vel)
    IN  <<FDiv(vel[1], n), FDiv(vel[2], n)>>

\* previous_directions of one pedestrian: vel / norm(vel), then np.nan_to_num
PreviousDirection(vel) ==
    LET n == Norm(vel)
    IN  <<NanToNum(FDiv(vel[1], n)), NanToNum(FDiv(vel[2], n))>>

\* forgetting_factor * force + (1 - forgetting_factor) * previous_forces
BlendedForce(cfg, f, previous_direction) ==
    LET intensity == Norm(f)
        previous_force == <<FMul(previous_direction[1], intensity),
                            FMul(previous_direction[2], intensity)>>
        keep == cfg.forgetting_factor
    IN  <<FAdd(FMul(keep, f[1]), FMul(Scale - keep, previous_force[1])),
          FAdd(FMul(keep, f[2]), FMul(Scale - keep, previous_force[2]))>>

\* DesiredForce._get_force, with what change_direction returned
DesiredForceGetForce(cfg, peds, cd) ==
    LET naive == [i \in DOMAIN peds |->
                     Normalize(VSub(peds[i].goal, peds[i].pos)).direction]
        direction == IF cfg.obstacle_avoidance THEN ChangeDirection(naive, cd)
                     ELSE naive
        raw == [i \in DOMAIN peds |-> RawDesiredForce(cfg, peds[i], direction[i])]
        previous_directions == [i \in DOMAIN peds |-> PreviousDirection(peds[i].vel)]
        blended == [i \in DOMAIN peds |->
                       IF cfg.obstacle_avoidance /\ i \in cd.indices
                       THEN BlendedForce(cfg, raw[i], previous_directions[i])
                       ELSE raw[i]]
    IN  [called |-> TRUE,
         direction |-> direction,
         raw |-> raw,
         previous_directions |-> previous_directions,
         collision_indices |-> IF cfg.obstacle_avoidance THEN cd.indices ELSE {},
         force |-> [i \in DOMAIN peds |->
                       <<FMul(blended[i][1], cfg.factor),
                         FMul(blended[i][2], cfg.factor)>>]]

\* The defaults of __init__ and of the configuration
ForgettingFactor == (8 * Scale) \div 10
DefaultDesiredCfg ==
    [obstacle_avoidance |-> FALSE, forgetting_factor |-> ForgettingFactor,
     relaxation_time |-> HalfUnit, goal_threshold |-> Scale \div 10,
     factor |-> Scale]

NoDesired ==
    [called |-> FALSE, direction |-> << >>, raw |-> << >>,
     previous_directions |-> << >>, collision_indices |-> {}, force |-> << >>]

NoChange == [indices |-> {}, turn |-> "left"]

\* What change_direction may return for this scene
ChangeDirectionResults ==
    {NoChange} \cup
    [indices : SUBSET (DOMAIN peds_state) \ {{}}, turn : {"left", "right", "back"}]

GetDesiredForce ==
    \E cd \in (IF desired_cfg.obstacle_avoidance THEN ChangeDirectionResults
               ELSE {NoChange}) :
        /\ desired' = DesiredForceGetForce(desired_cfg, peds_state, cd)
        /\ last_force' = desired.force
        /\ UNCHANGED <<peds_state, desired_cfg, notDesired>>

(* Inputs *)

\* Pedestrians far from the goal (moving, standing), one moving whose goal is
\* at distance 0.5 exactly, and one standing on its goal
PedRows ==
    {[pos |-> Zero2, vel |-> <<Scale, 0>>, goal |-> <<3 * Scale, 4 * Scale>>,
      max_speed |-> Scale + HalfUnit],
     [pos |-> Zero2, vel |-> Zero2, goal |-> <<3 * Scale, 4 * Scale>>,
      max_speed |-> Scale + HalfUnit],
     [pos |-> Zero2, vel |-> <<-HalfUnit, HalfUnit>>, goal |-> <<HalfUnit, 0>>,
      max_speed |-> Scale],
     [pos |-> <<Scale, Scale>>, vel |-> Zero2, goal |-> <<Scale, Scale>>,
      max_speed |-> Scale]}

DesiredCfgs ==
    [obstacle_avoidance : BOOLEAN, forgetting_factor : {ForgettingFactor},
     relaxation_time : {HalfUnit}, goal_threshold : {Scale \div 10, HalfUnit},
     factor : {Scale, 2 * Scale}]

----------------------------------------------------------------------------
(* MapEditorToolbar *)

\* MapToolbarMode, and the modes __init__ creates a button for
ToolbarModes ==
    {"NONE", "NEW_ROBOT_SPAWN", "NEW_ROBOT_GOAL", "NEW_ROBOT_ROUTE",
     "NEW_PED_SPAWN", "NEW_PED_GOAL", "NEW_PED_ROUTE", "NEW_OBSTACLE"}
ButtonModes == ToolbarModes \ {"NONE", "NEW_OBSTACLE"}

\* MapEditorToolbar(frame, on_mode_changed): the buttons have the background
\* of the window system until pack() configures them
NewToolbar ==
    [mode |-> "NONE", buttons |-> [m \in ButtonModes |-> "system"], packed |-> FALSE]

NoModeLog ==
    [calls |-> 0, notified |-> 0, last_notified |-> "NONE", before |-> "NONE",
     new_mode |-> "NONE"]

\* pack(): every button gets COLOR_BTN_DEFAULT
ToolbarPack ==
    /\ ~toolbar.packed
    /\ toolbar' = [toolbar EXCEPT !.buttons = [m \in ButtonModes |-> "gray"],
                                  !.packed = TRUE]
    /\ UNCHANGED <<mode_log, notToolbar>>

\* change_mode that never goes back to NONE
NextModeSticky(mode, new_mode) ==
    new_mode

\* lines 144-147
NextMode(mode, new_mode) ==
    IF mode = new_mode THEN "NONE" ELSE new_mode

\* lines 149-153: the background every button is configured with
ButtonBackgrounds(mode) ==
    [m \in ButtonModes |-> IF m = mode THEN "yellow" ELSE "gray"]

MaxModeChanges == 3

\* change_mode(new_mode), called by a button (they are on screen once pack()
\* has run) or by the program with any mode
ChangeMode(new_mode) ==
    /\ toolbar.packed
    /\ mode_log.calls < MaxModeChanges
    /\ LET mode == NextMode(toolbar.mode, new_mode)
       IN  /\ toolbar' = [toolbar EXCEPT !.mode = mode,
                                         !.buttons = ButtonBackgrounds(mode)]
           \* line 155: self.on_mode_changed(self.mode)
           /\ mode_log' = [calls |-> mode_log.calls + 1,
                           notified |-> mode_log.notified + 1,
                           last_notified |-> mode,
                           before |-> toolbar.mode, new_mode |-> new_mode]
    /\ UNCHANGED notToolbar

----------------------------------------------------------------------------
(* MapEditor *)

\* MapEditor(): threaded is whether Tcl was built with threads, in which case
\* a Tk call of another thread than the one of mainloop is queued for the main
\* thread and waits until the event loop has run it
NewEditor(threaded) ==
    [main |-> "init", thread |-> "none", window |-> "open",
     threaded |-> threaded,
     is_shutdown_requested |-> FALSE, map_rendering_thread |-> FALSE,
     last_text |-> NoText, last_config |-> << >>,
     config_content |-> NoText, map_config |-> << >>]

NoReloadLog ==
    [reloaded |-> FALSE, before_text |-> NoText, before_config |-> << >>,
     content |-> NoText, drawn |-> "none"]

\* reload_map that remembers every text it read
ReloadMapAnyText(last_text, last_config, config_content) ==
    LET parsed_config == IF config_content # last_text
                         THEN ParseMapfileTextOf(config_content) ELSE << >>
    IN  [map_config |-> parsed_config,
         last_config |-> IF parsed_config # << >> THEN parsed_config ELSE last_config,
         last_text |-> config_content]

\* lines 223-226; a VisualizableMapConfig is a plain dataclass, so it is true
ReloadMap(last_text, last_config, config_content) ==
    LET parsed_config == IF config_content # last_text
                         THEN ParseMapfileTextOf(config_content) ELSE << >>
    IN  [map_config |-> parsed_config,
         last_config |-> IF parsed_config # << >> THEN parsed_config ELSE last_config,
         last_text |-> IF parsed_config # << >> THEN config_content ELSE last_text]

\* MapCanvas.scaling divides by the width and the height of the map
ScalingRaises(drawn_config) ==
    \/ drawn_config.x_margin[2] - drawn_config.x_margin[1] = 0
    \/ drawn_config.y_margin[2] - drawn_config.y_margin[1] = 0

\* MapCanvas.render after the lines of the obstacles: a VisualizableMapConfig
\* has no robot_spawn_zones
RenderRaises == "AttributeError"

\* A Tk call of the rendering thread can run
TkCallRuns == ~editor.threaded \/ editor.main = "mainloop"

\* launch(): pack, start the rendering thread, enter mainloop
Launch ==
    /\ editor.main = "init"
    /\ editor' = [editor EXCEPT !.main = "mainloop", !.thread = "test",
                                !.map_rendering_thread = TRUE]
    /\ UNCHANGED <<editor_text, reload_log, notEditor>>

\* The user edits the text; the event loop handles the keys
EditText(text) ==
    /\ editor.main = "mainloop"
    /\ text # editor_text
    /\ editor_text' = text
    /\ UNCHANGED <<editor, reload_log, notEditor>>

\* line 235: while not is_term()
ThreadTest ==
    /\ editor.thread = "test"
    /\ editor' = [editor EXCEPT
                    !.thread = IF editor.is_shutdown_requested THEN "ended" ELSE "read"]
    /\ UNCHANGED <<editor_text, reload_log, notEditor>>

\* line 222: config_content = self.text_editor.text, a Tk call
ThreadReadText ==
    /\ editor.thread = "read"
    /\ TkCallRuns
    /\ editor' = [editor EXCEPT !.config_content = editor_text, !.thread = "parse"]
    /\ UNCHANGED <<editor_text, reload_log, notEditor>>

\* lines 223-227
ThreadParse ==
    /\ editor.thread = "parse"
    /\ LET r == ReloadMap(editor.last_text, editor.last_config, editor.config_content)
       IN  /\ editor' = [editor EXCEPT !.map_config = r.map_config,
                                       !.last_config = r.last_config,
                                       !.last_text = r.last_text,
                                       !.thread = IF r.map_config # << >>
                                                  THEN "draw" ELSE "sleep"]
           /\ reload_log' = [reload_log EXCEPT !.reloaded = TRUE,
                                               !.before_text = editor.last_text,
                                               !.before_config = editor.last_config,
                                               !.content = editor.config_content]
    /\ UNCHANGED <<editor_text, notEditor>>

\* lines 46-47 inside the try of line 228: canvas.delete and winfo_width are
\* Tk calls; an error of scaling is caught by line 230
ThreadDrawScaling ==
    /\ editor.thread = "draw"
    /\ TkCallRuns
    /\ IF ScalingRaises(editor.map_config[1])
       THEN /\ editor' = [editor EXCEPT !.thread = "sleep"]
            /\ reload_log' = [reload_log EXCEPT !.drawn = "ZeroDivisionError"]
       ELSE /\ editor' = [editor EXCEPT !.thread = "lines"]
            /\ UNCHANGED reload_log
    /\ UNCHANGED <<editor_text, notEditor>>

\* lines 73-77: canvas.create_line is a Tk call; line 77 raises, line 230
\* catches it
ThreadDrawLines ==
    /\ editor.thread = "lines"
    /\ TkCallRuns
    /\ editor' = [editor EXCEPT !.thread = "sleep"]
    /\ reload_log' = [reload_log EXCEPT !.drawn = RenderRaises]
    /\ UNCHANGED <<editor_text, notEditor>>

\* line 237
ThreadSleep ==
    /\ editor.thread = "sleep"
    /\ editor' = [editor EXCEPT !.thread = "test"]
    /\ UNCHANGED <<editor_text, reload_log, notEditor>>

\* on_closing up to the join: the event loop calls it when the window is closed
OnClosing ==
    /\ editor.main = "mainloop"
    /\ editor' = IF editor.map_rendering_thread
                 THEN [editor EXCEPT !.is_shutdown_requested = TRUE, !.main = "join"]
                 ELSE [editor EXCEPT !.window = "destroyed", !.main = "done"]
    /\ UNCHANGED <<editor_text, reload_log, notEditor>>

\* lines 256-257: join returns when the thread has ended, then destroy
JoinReturns ==
    /\ editor.main = "join"
    /\ editor.thread = "ended"
    /\ editor' = [editor EXCEPT !.window = "destroyed", !.main = "done"]
    /\ UNCHANGED <<editor_text, reload_log, notEditor>>

RenderingThread ==
    \/ ThreadTest
    \/ ThreadReadText
    \/ ThreadParse
    \/ ThreadDrawScaling
    \/ ThreadDrawLines
    \/ ThreadSleep

(* Inputs *)

\* The emptied editor, a text without 'y_margin', a map with one obstacle, a
\* map without obstacles and a map of width zero
MissingKeyText ==
    [is_json |-> TRUE, keys |-> {"Obstacles", "x_margin"}, obstacles |-> << >>,
     x_margin |-> <<0, 10>>, y_margin |-> <<0, 10>>]
NoObstacleText ==
    [is_json |-> TRUE, keys |-> RequiredToplevelKeys, obstacles |-> << >>,
     x_margin |-> <<0, 10>>, y_margin |-> <<0, 10>>]
OneObstacleText ==
    [NoObstacleText EXCEPT
        !.obstacles = <<[keys |-> RequiredObstacleKeys,
                         Vertex |-> <<<<0, 0>>, <<1, 0>>>>]>>]
FlatMapText == [NoObstacleText EXCEPT !.x_margin = <<0, 0>>]
EditorTexts == {NoText, MissingKeyText, NoObstacleText, OneObstacleText, FlatMapText}

----------------------------------------------------------------------------
(* Specifications *)

SettingsIdle ==
    /\ ctor_args = NoSettings
    /\ ctor_result = "none"
    /\ settings = NoSettings

DriveIdle ==
    /\ config = AllOnes
    /\ state = NewState(Origin)
    /\ origin = "direct"
    /\ moves = 0
    /\ hist = NoHist

ForceIdle ==
    /\ peds_pos = << >>
    /\ groups = << >>
    /\ force_cfg = DefaultForceCfg
    /\ robot_state = FarAway
    /\ force_kind = "none"
    /\ force = << >>

EnvIdle ==
    /\ robot_map = EmptyMap
    /\ env = NewEnv
    /\ reset_pc = "idle"
    /\ count = 0
    /\ target_cand = None
    /\ robot_pose = None
    /\ reset_log = NoResetLog

GymIdle ==
    /\ env_args = DefaultEnvArgs
    /\ env_cfg = NoEnvCfg
    /\ step_log = NoStepLog
    /\ obs = NoObs

ViewIdle ==
    /\ view = DefaultView
    /\ vstate = NoVState
    /\ render_log = NoRenderLog

ParseIdle ==
    /\ map_text = NoText
    /\ map_config = << >>

ExtractorIdle ==
    /\ extractor_args = NoExtractorArgs
    /\ extractor = NoExtractor

DesiredIdle ==
    /\ peds_state = << >>
    /\ desired_cfg = DefaultDesiredCfg
    /\ desired = NoDesired
    /\ last_force = << >>

ToolbarIdle ==
    /\ toolbar = NewToolbar
    /\ mode_log = NoModeLog

EditorIdle ==
    /\ editor = NewEditor(FALSE)
    /\ editor_text = NoText
    /\ reload_log = NoReloadLog

\* Construction of DifferentialDriveSettings from arbitrary arguments
InitSettings == SettingsIdle /\ DriveIdle /\ ForceIdle /\ EnvIdle /\ GymIdle /\ ViewIdle /\ ParseIdle /\ ExtractorIdle /\ DesiredIdle /\ ToolbarIdle /\ EditorIdle

NextSettings == \E args \in SettingsArgs : ConstructSettings(args)

SpecSettings == InitSettings /\ [][NextSettings]_vars

\* A motion object over valid settings, driven from a directly built state or
\* from reset_state
InitDrive ==
    /\ SettingsIdle
    /\ config \in DriveConfigs
    /\ state \in DirectStates
    /\ origin = "direct"
    /\ moves = 0
    /\ hist = NoHist
    /\ ForceIdle /\ EnvIdle /\ GymIdle /\ ViewIdle /\ ParseIdle /\ ExtractorIdle /\ DesiredIdle /\ ToolbarIdle /\ EditorIdle

NextDrive ==
    \/ \E lin \in LinearActions, ang \in AngularActions, d_t \in TimeSteps :
           Move(<<lin, ang>>, d_t)
    \/ \E p \in SpawnPoses : ResetState(p)

SpecDrive == InitDrive /\ [][NextDrive]_vars

\* A scene of pedestrians, a PedRobotForce and a GroupRepulsiveForce over it
InitForce ==
    /\ SettingsIdle /\ DriveIdle /\ EnvIdle /\ GymIdle /\ ViewIdle /\ ParseIdle /\ ExtractorIdle /\ DesiredIdle /\ ToolbarIdle /\ EditorIdle
    /\ peds_pos \in [1..NumPeds -> PedPositions]
    /\ groups \in GroupChoices
    /\ force_cfg \in ForceCfgs
    /\ robot_state = FarAway
    /\ force_kind = "none"
    /\ force = [i \in 1..NumPeds |-> Zero2]

NextForce ==
    \/ \E pos \in RobotPositions : UpdateRobotState(pos)
    \/ GetPedRobotForce
    \/ GetGroupRepulsiveForce

SpecForce == InitForce /\ [][NextForce]_vars

\* An environment over one of the maps, reset repeatedly
InitEnv ==
    /\ SettingsIdle /\ DriveIdle /\ ForceIdle /\ ViewIdle /\ ParseIdle /\ ExtractorIdle /\ DesiredIdle /\ ToolbarIdle /\ EditorIdle
    /\ robot_map \in EnvMaps
    /\ env = NewEnv
    /\ reset_pc = "idle"
    /\ count = 0
    /\ target_cand = None
    /\ robot_pose = None
    /\ reset_log = NoResetLog
    /\ env_args = DefaultEnvArgs
    /\ env_cfg = RobotEnvInit(env_args)
    /\ step_log = NoStepLog
    /\ obs = NoObs

GoalStep == \E cand \in robot_map.samples : GoalSample(cand)

SpawnPoseSamples == {<<p[1], p[2], o>> : p \in robot_map.samples, o \in robot_map.orients}

SpawnRetryStep == \E pose \in SpawnPoseSamples : SpawnRetry(pose)

\* The accepted pose with a scan in which no ray hits anything
SpawnAcceptStep == \E pose \in SpawnPoseSamples : SpawnAccept(pose, FreeScan(env_cfg))

GoalAcceptStep ==
    \E cand \in robot_map.samples : GoalAccepted(robot_map, cand) /\ GoalSample(cand)

NextEnv ==
    \/ ResetBegin
    \/ GoalStep
    \/ SpawnRetryStep
    \/ SpawnAcceptStep

SpecEnv == InitEnv /\ [][NextEnv]_vars

\* The same with the scheduling of the sampling loops: a running loop takes its
\* next pass, and a uniform draw that keeps being possible is eventually taken,
\* so an accepted candidate is drawn whenever the map has one
FairSpecEnv ==
    /\ SpecEnv
    /\ WF_vars(GoalStep) /\ WF_vars(SpawnRetryStep)
    /\ SF_vars(GoalAcceptStep) /\ SF_vars(SpawnAcceptStep)

\* Construction of a RobotEnv from arbitrary arguments
InitEnvCtor == SettingsIdle /\ DriveIdle /\ ForceIdle /\ EnvIdle /\ GymIdle /\ ViewIdle /\ ParseIdle /\ ExtractorIdle /\ DesiredIdle /\ ToolbarIdle /\ EditorIdle

NextEnvCtor == \E args \in EnvArgs : ConstructEnv(args)

SpecEnvCtor == InitEnvCtor /\ [][NextEnvCtor]_vars

\* An environment with its simulator: reset, then stepped; the caller resets
\* again when an episode is done
InitRobotEnv ==
    /\ SettingsIdle /\ DriveIdle /\ ViewIdle /\ ParseIdle /\ ExtractorIdle /\ DesiredIdle /\ ToolbarIdle /\ EditorIdle
    /\ peds_pos \in StepPeds
    /\ groups = << >>
    /\ force_cfg = DefaultForceCfg
    /\ robot_state = FarAway
    /\ force_kind = "none"
    /\ force = [i \in 1..NumPeds |-> Zero2]
    /\ robot_map = StepMap
    /\ env = NewEnv
    /\ reset_pc = "idle"
    /\ count = 0
    /\ target_cand = None
    /\ robot_pose = None
    /\ reset_log = NoResetLog
    /\ env_args \in StepEnvArgs
    /\ env_cfg = RobotEnvInit(env_args)
    /\ step_log = NoStepLog
    /\ obs = NoObs

EnvStepStep ==
    \E action_np \in StepActions, ranges \in ScanSamples(env_cfg) :
        EnvStep(action_np, ranges)

SpawnScanStep ==
    \E pose \in SpawnPoseSamples, ranges \in ScanSamples(env_cfg) : SpawnAccept(pose, ranges)

NextRobotEnv ==
    \/ (reset_pc = "idle" \/ step_log.done) /\ ResetBegin
    \/ GoalStep
    \/ SpawnRetryStep
    \/ SpawnScanStep
    \/ EnvStepStep

SpecRobotEnv == InitRobotEnv /\ [][NextRobotEnv]_vars

\* A view, its UI thread and a caller that renders the state object it holds
InitView ==
    /\ SettingsIdle /\ DriveIdle /\ ForceIdle /\ EnvIdle /\ GymIdle /\ ParseIdle /\ ExtractorIdle /\ DesiredIdle /\ ToolbarIdle /\ EditorIdle
    /\ view = DefaultView
    /\ vstate \in VStates
    /\ render_log = NoRenderLog

NextView ==
    \/ Render
    \/ Show
    \/ ExitRequest
    \/ ExitJoined
    \/ SigintExit
    \/ SigintAbort
    \/ UiCheck
    \/ UiQuitExit
    \/ UiQuitAbort
    \/ UiResizeFlag
    \/ \E size \in ResizedSizes : UiResizeSize(size[1], size[2])
    \/ UiSleep

SpecView == InitView /\ [][NextView]_vars

\* One map file text, parsed
InitParse ==
    /\ SettingsIdle /\ DriveIdle /\ ForceIdle /\ EnvIdle /\ GymIdle /\ ViewIdle /\ ParseIdle /\ ExtractorIdle /\ DesiredIdle /\ ToolbarIdle /\ EditorIdle

\* The texts are only enumerated while none has been parsed
ParseStep == map_text = NoText /\ \E text \in MapTexts : ParseMapfileText(text)

NextParse == ParseStep

SpecParse == InitParse /\ [][NextParse]_vars

\* One DynamicsExtractor, constructed
InitExtractor ==
    /\ SettingsIdle /\ DriveIdle /\ ForceIdle /\ EnvIdle /\ GymIdle /\ ViewIdle
    /\ ParseIdle /\ ExtractorIdle /\ DesiredIdle /\ ToolbarIdle /\ EditorIdle

ConstructExtractorStep ==
    extractor.result = "none" /\ \E args \in ExtractorArgs : ConstructExtractor(args)

NextExtractor == ConstructExtractorStep

SpecExtractor == InitExtractor /\ [][NextExtractor]_vars

\* A scene of pedestrians with goals and a DesiredForce over it
InitDesired ==
    /\ SettingsIdle /\ DriveIdle /\ ForceIdle /\ EnvIdle /\ GymIdle /\ ViewIdle
    /\ ParseIdle /\ ExtractorIdle /\ ToolbarIdle /\ EditorIdle
    /\ peds_state \in [1..NumPeds -> PedRows]
    /\ desired_cfg \in DesiredCfgs
    /\ desired = NoDesired
    /\ last_force = << >>

\* One call per scene: a second call on the same scene returns the same
GetDesiredForceStep == ~desired.called /\ GetDesiredForce

NextDesired == GetDesiredForceStep

SpecDesired == InitDesired /\ [][NextDesired]_vars

\* Two ticks of a DesiredForce with obstacle avoidance over one scene
InitDesiredTicks ==
    /\ SettingsIdle /\ DriveIdle /\ ForceIdle /\ EnvIdle /\ GymIdle /\ ViewIdle
    /\ ParseIdle /\ ExtractorIdle /\ ToolbarIdle /\ EditorIdle
    /\ peds_state \in [1..NumPeds -> PedRows]
    /\ desired_cfg = [DefaultDesiredCfg EXCEPT !.obstacle_avoidance = TRUE]
    /\ desired = NoDesired
    /\ last_force = << >>

GetDesiredForceTick == last_force = << >> /\ GetDesiredForce

NextDesiredTicks == GetDesiredForceTick

SpecDesiredTicks == InitDesiredTicks /\ [][NextDesiredTicks]_vars

\* A toolbar, packed, whose mode is changed
InitToolbar ==
    /\ SettingsIdle /\ DriveIdle /\ ForceIdle /\ EnvIdle /\ GymIdle /\ ViewIdle
    /\ ParseIdle /\ ExtractorIdle /\ DesiredIdle /\ ToolbarIdle /\ EditorIdle

NextToolbar ==
    \/ ToolbarPack
    \/ \E new_mode \in ToolbarModes : ChangeMode(new_mode)

SpecToolbar == InitToolbar /\ [][NextToolbar]_vars

\* A map editor that is launched, edited and closed
InitEditor ==
    /\ SettingsIdle /\ DriveIdle /\ ForceIdle /\ EnvIdle /\ GymIdle /\ ViewIdle
    /\ ParseIdle /\ ExtractorIdle /\ DesiredIdle /\ ToolbarIdle
    /\ \E threaded \in BOOLEAN : editor = NewEditor(threaded)
    /\ editor_text \in EditorTexts
    /\ reload_log = NoReloadLog

NextEditor ==
    \/ Launch
    \/ \E text \in EditorTexts : EditText(text)
    \/ RenderingThread
    \/ OnClosing
    \/ JoinReturns

SpecEditor == InitEditor /\ [][NextEditor]_vars

\* Both threads are scheduled; the user need not do anything
FairSpecEditor ==
    SpecEditor /\ WF_vars(RenderingThread) /\ WF_vars(JoinReturns)

----------------------------------------------------------------------------
(* Claims about DifferentialDriveSettings and DifferentialDriveMotion *)

\* C1: constructing DifferentialDriveSettings raises, and leaves no settings
\* object, whenever one of the five arguments is zero or negative; it succeeds,
\* with the arguments stored, when all five are strictly positive.
C1_SettingsValidated ==
    ctor_result # "none" =>
        LET a == ctor_args
            all_positive == /\ a.radius > 0 /\ a.wheel_radius > 0
                            /\ a.max_linear_speed > 0 /\ a.max_angular_speed > 0
                            /\ a.interaxis_length > 0
        IN  /\ ~all_positive => ctor_result = "ValueError" /\ settings = NoSettings
            /\ all_positive => ctor_result = "ok" /\ settings = a

\* A construction rejected for its interaxis length alone, which is zero
C1_Witness ==
    /\ ctor_result = "ValueError"
    /\ ctor_args.interaxis_length = 0
    /\ ctor_args.radius > 0 /\ ctor_args.wheel_radius > 0
    /\ ctor_args.max_linear_speed > 0 /\ ctor_args.max_angular_speed > 0

\* C2: after a move, whatever the state before it and whatever the action, the
\* stored linear velocity is in [0, max_linear_speed] and the stored angular
\* velocity in [-max_angular_speed, max_angular_speed].
C2_VelocityClamped ==
    hist.moved =>
        /\ 0 <= state.velocity[1] /\ state.velocity[1] <= config.max_linear_speed
        /\ -config.max_angular_speed <= state.velocity[2]
        /\ state.velocity[2] <= config.max_angular_speed

\* A move from a state whose velocity was outside both limits
C2_Witness ==
    /\ hist.moved
    /\ hist.pre.velocity[1] + hist.action[1] > config.max_linear_speed
    /\ hist.pre.velocity[2] + hist.action[2] < -config.max_angular_speed
    /\ state.velocity = <<config.max_linear_speed, -config.max_angular_speed>>

\* C4 as stated, on the states reached by reset_state and moves (some of "every
\* state"): a move with angular action 0 and a nonzero linear action keeps the
\* heading and moves the position along the pre-move heading by at most
\* (clamped linear speed * d_t).
C4_StraightAsStated ==
    (origin = "reset" /\ hist.moved /\ hist.action[2] = 0 /\ hist.action[1] # 0) =>
        /\ state.pose.orient = hist.pre.pose.orient
        /\ state.pose.x = hist.pre.pose.x + Mul(hist.distance, cos(hist.pre.pose.orient))
        /\ state.pose.y = hist.pre.pose.y + Mul(hist.distance, sin(hist.pre.pose.orient))
        /\ Abs(hist.distance) <= Mul(state.velocity[1], hist.d_t)

\* The pre-move state has angular velocity 0 and the wheel speeds of its velocity
StraightPre(s) ==
    /\ s.velocity[2] = 0
    /\ s.wheel_speeds[1] = Div(s.velocity[1], config.wheel_radius)
    /\ s.wheel_speeds[2] = Div(s.velocity[1], config.wheel_radius)

\* C4 amended: from a state with angular velocity 0 and the wheel speeds of its
\* velocity, a move with angular action 0 and a nonzero linear action keeps the
\* heading and moves the position along the pre-move heading by the mean of the
\* old and the clamped new linear speed times d_t, which is at most the larger
\* of the two speeds times d_t.
C4_StraightAmended ==
    (hist.moved /\ hist.action[2] = 0 /\ hist.action[1] # 0 /\ StraightPre(hist.pre)) =>
        /\ state.pose.orient = hist.pre.pose.orient
        /\ state.pose.x = hist.pre.pose.x + Mul(hist.distance, cos(hist.pre.pose.orient))
        /\ state.pose.y = hist.pre.pose.y + Mul(hist.distance, sin(hist.pre.pose.orient))
        /\ hist.distance
             = Mul(Quot(hist.pre.velocity[1] + state.velocity[1], 2), hist.d_t)
        /\ hist.distance
             <= Mul(Max(hist.pre.velocity[1], state.velocity[1]), hist.d_t)

\* A braking straight move: the position advances by more than new speed * d_t
C4_Witness ==
    /\ hist.moved /\ hist.action[2] = 0 /\ hist.action[1] < 0
    /\ StraightPre(hist.pre)
    /\ hist.pre.velocity[1] > state.velocity[1]
    /\ hist.distance > Mul(state.velocity[1], hist.d_t)
    /\ state.pose.x # hist.pre.pose.x

\* C5: from pose ((0,0),0), velocity (1,0), wheel speeds (1,1), all settings 1
\* and d_t = 1, a move with a negative angular action ends in the 4th quadrant
\* (x > 0, y < 0, normalized heading in (1.5 pi, 2 pi)), and one with a positive
\* angular action in the 1st (x > 0, y > 0, heading in (0, 0.5 pi)).
C5_CurveRegression ==
    (hist.moved /\ hist.pre = TestState /\ config = AllOnes /\ hist.d_t = Scale) =>
        /\ hist.action[2] < 0 =>
              /\ state.pose.x > 0 /\ state.pose.y < 0
              /\ 3 * HalfPi < norm_angle(state.pose.orient)
              /\ norm_angle(state.pose.orient) < TwoPi
        /\ hist.action[2] > 0 =>
              /\ state.pose.x > 0 /\ state.pose.y > 0
              /\ 0 < norm_angle(state.pose.orient)
              /\ norm_angle(state.pose.orient) < HalfPi

\* test_can_drive_right_curve: action (1, -0.5)
C5_Witness ==
    /\ hist.moved /\ hist.pre = TestState /\ config = AllOnes /\ hist.d_t = Scale
    /\ hist.action = <<Scale, -HalfUnit>>
    /\ state.pose.y < 0

\* C6: in every state reached by reset_state followed by moves, the stored
\* wheel speeds are left = (v - L*w/2)/r and right = (v + L*w/2)/r of the stored
\* velocity (v, w), with L the interaxis length and r the wheel radius.
C6_WheelSpeedsDerivable ==
    origin = "reset" =>
        LET v == state.velocity[1]
            w == state.velocity[2]
            L == config.interaxis_length
            r == config.wheel_radius
        IN  /\ state.wheel_speeds[1] = Div(v - Quot(Mul(L, w), 2), r)
            /\ state.wheel_speeds[2] = Div(v + Quot(Mul(L, w), 2), r)

\* A turning, moving robot after reset_state and two moves
C6_Witness ==
    /\ origin = "reset" /\ hist.moved /\ moves >= 2
    /\ state.velocity[1] > 0 /\ state.velocity[2] # 0
    /\ state.wheel_speeds[1] # state.wheel_speeds[2]

----------------------------------------------------------------------------
(* Claims about PedRobotForce and GroupRepulsiveForce *)

\* gap of pedestrian i to the robot: center distance minus both radii
Gap(i) == Norm(VSub(peds_pos[i], robot_state)) - force_cfg.agent_radius
          - force_cfg.robot_radius

\* C7: PedRobotForce returns the zero vector for every pedestrian whose gap to
\* the robot is greater than or equal to the activation threshold.
C7_ZeroAtActivationThreshold ==
    force_kind = "PedRobotForce" =>
        \A i \in DOMAIN peds_pos :
            Gap(i) >= force_cfg.activation_treshold => force[i] = Zero2

\* What the code does instead: the force is zero exactly from a gap of
\* activation_treshold + agent_radius on (for a pedestrian not on the robot)
C7_ZeroFromWidenedThreshold ==
    force_kind = "PedRobotForce" =>
        \A i \in DOMAIN peds_pos :
            /\ Gap(i) >= force_cfg.activation_treshold + force_cfg.agent_radius
                  => force[i] = Zero2
            /\ (/\ Gap(i) < force_cfg.activation_treshold + force_cfg.agent_radius
                /\ peds_pos[i] # robot_state) => force[i] # Zero2

InGroup(i) == \E g \in DOMAIN groups : \E a \in DOMAIN groups[g] : groups[g][a] = i

\* The other members of the groups of pedestrian i
Mates(i) ==
    {j \in DOMAIN peds_pos \ {i} :
        \E g \in DOMAIN groups :
            /\ \E a \in DOMAIN groups[g] : groups[g][a] = i
            /\ \E b \in DOMAIN groups[g] : groups[g][b] = j}

RECURSIVE SumOffsets(_, _)
SumOffsets(i, js) ==
    IF js = {} THEN Zero2
    ELSE LET j == CHOOSE k \in js : TRUE
         IN  VAdd(VSub(peds_pos[i], peds_pos[j]), SumOffsets(i, js \ {j}))

----------------------------------------------------------------------------
(* Claims about RobotEnv.reset *)

\* C9: reset() terminates on every map: a reset that has begun ends, either by
\* returning or by raising the error, because the goal sampling and the spawn
\* sampling each give up after a fixed number of attempts.
C9_ResetTerminates ==
    (reset_pc \in {"goal", "spawn"}) ~> (reset_pc \in {"returned", "raised"})

\* C10: when every drawn goal candidate is rejected, the error is raised after
\* exactly 100 rejected candidates: the loop goes on below 100 rejections, no
\* 101st candidate is drawn, no spawn pose has been sampled when the error is
\* raised, and target_coords and robot are the ones reset() was entered with.
C10_GoalBudgetError ==
    /\ reset_log.goal_draws <= AttemptBudget
    /\ reset_pc = "goal" => count < AttemptBudget /\ reset_log.goal_draws = count
    /\ reset_pc = "raised" =>
          /\ count = AttemptBudget
          /\ reset_log.goal_draws = AttemptBudget
          /\ ~reset_log.spawn_sampled
          /\ env.target_coords = reset_log.saved_target
          /\ env.robot = reset_log.saved_robot

\* The error raised by a second reset, after a first one had set target and robot
C10_Witness ==
    /\ reset_pc = "raised"
    /\ reset_log.goal_draws = AttemptBudget
    /\ env.target_coords # None /\ env.robot # None

----------------------------------------------------------------------------
(* Claims about RobotEnv.step, the observation and the constructor *)

\* C11: within each call of step the robot kinematics is applied first: the
\* pedestrian simulator holds the robot position that results from this tick's
\* action, the pedestrians were integrated against that position, and the scan
\* was taken from the pose and the pedestrians that resulted from both.
C11_KinematicsBeforePedestrians ==
    step_log.steps > 0 =>
        LET after == <<step_log.pose_after.x, step_log.pose_after.y>>
        IN  /\ robot_state = after
            /\ peds_pos = SimStep(force_cfg, after, step_log.peds_before, env_cfg.dt)
            /\ step_log.scan_pose = step_log.pose_after
            /\ step_log.scan_peds = peds_pos

\* The declared shape of entry k of the observation: the observation space is
\* one Box, so its shape is the only one declared
DeclaredShape(k) == env_cfg.observation_space.shape

\* C13: the observation returned by reset() and by every later step is a
\* mapping with the drive-state entry and the range-scan entry, each of the
\* shape the observation space declares for it.
C13_ObservationMatchesSpace ==
    obs.type # "none" =>
        /\ obs.type = "dict"
        /\ \A k \in DOMAIN obs.items : <<Len(obs.items[k])>> = DeclaredShape(k)

\* C14: in every constructed RobotEnv the four divisors of _get_obs are
\* strictly positive.
C14_DivisorsPositive ==
    env_cfg.constructed =>
        /\ env_cfg.lidar_range > 0
        /\ env_cfg.linear_max > 0
        /\ env_cfg.angular_max > 0
        /\ env_cfg.target_distance_max > 0

----------------------------------------------------------------------------
(* Claims about SimulationView *)

\* C12: render never changes the state it is given: after render returns (or
\* raises), the robot pose, the pedestrian positions, the pedestrian action
\* vectors, the ray vectors and the goal position the caller holds are what
\* they were before the call, also on a repeated call with the same object.
C12_RenderLeavesState ==
    render_log.result # "none" =>
        /\ vstate.robot_pose = render_log.before.robot_pose
        /\ vstate.pedestrian_positions = render_log.before.pedestrian_positions
        /\ vstate.ped_actions = render_log.before.ped_actions
        /\ vstate.ray_vecs = render_log.before.ray_vecs
        /\ \A k \in DOMAIN vstate.action :
               vstate.action[k].robot_goal = render_log.before.action[k].robot_goal

----------------------------------------------------------------------------
(* Claims about the map file parser *)

\* C15: the obstacle list parse_mapfile_text returns has no zero-length
\* segment: in every line [s_x, e_x, s_y, e_y] the start (s_x, s_y) differs
\* from the end (e_x, e_y).
C15_NoZeroLengthSegment ==
    \A c \in DOMAIN map_config :
        \A k \in DOMAIN map_config[c].obstacles :
            LET line == map_config[c].obstacles[k]
            IN  <<line[1], line[3]>> # <<line[2], line[4]>>

----------------------------------------------------------------------------
(* Claims about DynamicsExtractor *)

\* C16: constructing DynamicsExtractor with an even entry in kernel_sizes
\* fails with 'kernel size must be odd!' and builds no extractor, whatever
\* use_ray_conv and the lengths of the three lists are.
C16_EvenKernelRejected ==
    (/\ extractor.result # "none"
     /\ \E k \in DOMAIN extractor_args.kernel_sizes :
            extractor_args.kernel_sizes[k] % 2 = 0)
    => /\ extractor.result = "ValueError"
       /\ extractor.message = "kernel size must be odd!"

----------------------------------------------------------------------------
(* Claims about DesiredForce *)

IsFinite(v) == v[1] # NaN /\ v[2] # NaN

GoalDistanceSquared(row) ==
    LET d == VSub(row.goal, row.pos) IN d[1] * d[1] + d[2] * d[2]

SeekingForce(row) ==
    LET to_goal == Normalize(VSub(row.goal, row.pos)).direction
    IN  <<Div(Mul(to_goal[1], row.max_speed) - row.vel[1], desired_cfg.relaxation_time),
          Div(Mul(to_goal[2], row.max_speed) - row.vel[2], desired_cfg.relaxation_time)>>

BrakingForce(row) ==
    <<Div(-row.vel[1], desired_cfg.relaxation_time),
      Div(-row.vel[2], desired_cfg.relaxation_time)>>

C20_SeekOrBrake ==
    (desired.called /\ ~desired_cfg.obstacle_avoidance) =>
        \A i \in DOMAIN peds_state :
            LET row == peds_state[i]
                t == desired_cfg.goal_threshold
                expected == IF GoalDistanceSquared(row) > t * t
                            THEN SeekingForce(row) ELSE BrakingForce(row)
            IN  desired.force[i] = <<Mul(expected[1], desired_cfg.factor),
                                     Mul(expected[2], desired_cfg.factor)>>

C20_Witness ==
    /\ desired.called /\ ~desired_cfg.obstacle_avoidance
    /\ \E i \in DOMAIN peds_state :
           /\ GoalDistanceSquared(peds_state[i])
                  = desired_cfg.goal_threshold * desired_cfg.goal_threshold
           /\ peds_state[i].vel # Zero2
    /\ \E i \in DOMAIN peds_state :
           /\ GoalDistanceSquared(peds_state[i])
                  > desired_cfg.goal_threshold * desired_cfg.goal_threshold
           /\ desired.force[i] # Zero2

----------------------------------------------------------------------------
(* Claims about the odometry of one move *)

\* The wheel speeds of the clamped velocity of the logged move
NewWheelSpeedsOfMove ==
    ResultingWheelSpeeds(config, RobotVelocity(config, hist.pre.velocity, hist.action))

\* C18: the distance covered by one move is wheel_radius/2 x ((old_left +
\* new_left)/2 + (old_right + new_right)/2) x dt, with old_* the wheel speeds
\* the state held before the move and new_* the wheel speeds derived from the
\* clamped velocity of this move (the ones the state holds afterwards).
C18_TrapezoidDistance ==
    hist.moved =>
        LET old == hist.pre.wheel_speeds
            new == state.wheel_speeds
            mean_left == Quot(old[1] + new[1], 2)
            mean_right == Quot(old[2] + new[2], 2)
        IN  /\ new = NewWheelSpeedsOfMove
            /\ hist.distance
                   = Mul(Mul(Quot(config.wheel_radius, 2), mean_left + mean_right),
                         hist.d_t)

C18_Witness ==
    /\ hist.moved
    /\ hist.pre.wheel_speeds # state.wheel_speeds
    /\ hist.pre.wheel_speeds # hist.pre.last_wheel_speeds
    /\ state.wheel_speeds[1] # state.wheel_speeds[2]
    /\ hist.distance # 0

\* C19: the heading after one move is the heading before plus
\* wheel_radius/interaxis_length x ((old_right + new_right)/2 - (old_left +
\* new_left)/2) x dt, and it is not wrapped into an interval: a left turn from
\* below 2*pi ends above 2*pi.
C19_HeadingAccumulates ==
    hist.moved =>
        LET old == hist.pre.wheel_speeds
            new == state.wheel_speeds
            mean_left == Quot(old[1] + new[1], 2)
            mean_right == Quot(old[2] + new[2], 2)
            ratio == Div(config.wheel_radius, config.interaxis_length)
        IN  state.pose.orient
                = hist.pre.pose.orient + Mul(Mul(ratio, mean_right - mean_left), hist.d_t)

C19_Witness ==
    /\ hist.moved
    /\ state.pose.orient > TwoPi
    /\ state.pose.orient > hist.pre.pose.orient
    /\ hist.pre.pose.orient < TwoPi

\* C21: with obstacle avoidance, the returned force of a pedestrian whose
\* avoidance was triggered is forgetting_factor x its newly computed force +
\* (1 - forgetting_factor) x the force it had on the previous tick, and the
\* force of every other pedestrian is its newly computed force.
C21_BlendWithPreviousTick ==
    (desired.called /\ desired_cfg.obstacle_avoidance /\ last_force # << >>) =>
        \A i \in DOMAIN peds_state :
            LET keep == desired_cfg.forgetting_factor
                new == <<Mul(desired.raw[i][1], desired_cfg.factor),
                         Mul(desired.raw[i][2], desired_cfg.factor)>>
                previous == last_force[i]
            IN  desired.force[i] =
                    IF i \in desired.collision_indices
                    THEN <<Mul(keep, new[1]) + Mul(Scale - keep, previous[1]),
                           Mul(keep, new[2]) + Mul(Scale - keep, previous[2])>>
                    ELSE new

----------------------------------------------------------------------------
(* Claims about the goal point, the episode and the flags of the view *)

\* C22: every goal point _pick_robot_spawn_and_target_pos accepts is farther
\* than min_distance (the x extent of the bounds / 20) from every obstacle
\* coordinate of the map.
C22_GoalClearOfObstacles ==
    reset_pc \in {"spawn", "returned"} =>
        \A k \in DOMAIN robot_map.obstacle_coordinates :
            ClearanceDivisor * ClearanceDivisor
                * SqDist(robot_map.obstacle_coordinates[k], target_cand)
                > BoundsWidth(robot_map) * BoundsWidth(robot_map)

\* C23: reset sets duration to 0; duration grows by dt on every step that
\* returns done = False and on no other; a step taken while duration >
\* sim_length returns done = True; so, with dt > 0, an episode has at most
\* floor(sim_length / dt) + 1 steps that return done = False, and repeated
\* steps reach done = True.
StepsOfEpisode == IF step_log.episode = reset_log.resets THEN step_log.running ELSE 0

C23_EpisodeTimesOut ==
    (reset_log.resets > 0 /\ env_cfg.dt > 0) =>
        /\ env.duration = StepsOfEpisode * env_cfg.dt
        /\ StepsOfEpisode <= (env_cfg.sim_length \div env_cfg.dt) + 1
        /\ (step_log.steps > 0 /\ step_log.duration_before > env_cfg.sim_length)
               => step_log.done

\* The time-out ends an episode that used all the steps it may take
C23_Witness ==
    /\ reset_pc = "returned"
    /\ step_log.episode = reset_log.resets
    /\ step_log.done
    /\ step_log.duration_before > env_cfg.sim_length
    /\ step_log.running = (env_cfg.sim_length \div env_cfg.dt) + 1
    /\ RewardBranchUntimed(env_cfg, force_cfg, robot_map, env.duration,
                           [pose |-> state.pose, config |-> config], peds_pos,
                           TargetOf(env.target_coords)) = "running"

\* C24: under every interleaving of the UI event thread, the SIGINT handler
\* and the thread calling render and exit, is_abortion_requested is true only
\* when is_exit_requested is true; neither flag is set back to false; and
\* once is_exit_requested is true the UI thread begins no further pass: the
\* next test of its loop ends it.
C24_FlagsOrderedAndSticky ==
    /\ [](view.is_abortion_requested => view.is_exit_requested)
    /\ [][/\ view.is_exit_requested => view'.is_exit_requested
          /\ view.is_abortion_requested => view'.is_abortion_requested
          /\ (view.is_exit_requested /\ view.ui_thread = "check")
                 => view'.ui_thread \in {"check", "ended"}]_vars

\* The handler is between its two assignments while the UI thread is in the
\* middle of a pass
C24_Witness ==
    /\ view.sigint = "running"
    /\ view.is_exit_requested /\ ~view.is_abortion_requested
    /\ view.ui_thread = "events"

----------------------------------------------------------------------------
(* Claims about the map editor *)

Highlighted == {m \in ButtonModes : toolbar.buttons[m] = "yellow"}

\* C25: after any sequence of change_mode calls at most one button is
\* highlighted and a button is highlighted exactly when its mode is the
\* current mode; a call with the current mode sets the mode to NONE, a call
\* with another mode sets it to that mode, and on_mode_changed has been called
\* once per call, the last time with the resulting mode.
C25_OneHighlightedButton ==
    /\ Cardinality(Highlighted) <= 1
    /\ \A m \in ButtonModes : m \in Highlighted <=> m = toolbar.mode
    /\ mode_log.notified = mode_log.calls
    /\ mode_log.calls > 0 =>
           /\ toolbar.mode = IF mode_log.before = mode_log.new_mode THEN "NONE"
                             ELSE mode_log.new_mode
           /\ mode_log.last_notified = toolbar.mode

\* A second click on the highlighted button
C25_Witness ==
    /\ mode_log.calls >= 2
    /\ mode_log.before = mode_log.new_mode
    /\ mode_log.before \in ButtonModes
    /\ toolbar.mode = "NONE"
    /\ Highlighted = {}

\* C26: whenever reload_map has run, last_text and last_config are both the new
\* text and its parsed configuration if the text it read differed from
\* last_text and parsed, and both what they were before otherwise; the loop
\* ends only through its test of is_shutdown_requested, whatever drawing did.
C26_TextAndConfigTogether ==
    /\ reload_log.reloaded =>
           LET parsed == IF reload_log.content # reload_log.before_text
                         THEN ParseMapfileTextOf(reload_log.content) ELSE << >>
           IN  IF parsed # << >>
               THEN /\ editor.last_text = reload_log.content
                    /\ editor.last_config = parsed
               ELSE /\ editor.last_text = reload_log.before_text
                    /\ editor.last_config = reload_log.before_config
    /\ editor.thread = "ended" => editor.is_shutdown_requested
    /\ (reload_log.drawn # "none" /\ ~editor.is_shutdown_requested) =>
           editor.thread # "ended"

\* After a map was drawn with an error, a new text that does not parse is read
\* and the loop goes on
C26_Witness ==
    /\ reload_log.reloaded
    /\ reload_log.drawn = "ZeroDivisionError"
    /\ reload_log.content # reload_log.before_text
    /\ ParseMapfileTextOf(reload_log.content) = << >>
    /\ editor.last_text = FlatMapText
    /\ editor.thread = "sleep"

\* C27: on_closing always completes: once it waits in join the rendering
\* thread ends, join returns and the window is destroyed, and the window is
\* destroyed only after the thread has ended.
C27_OnClosingCompletes ==
    /\ [](editor.window = "destroyed" => editor.thread \in {"none", "ended"})
    /\ (editor.main = "join") ~> (editor.window = "destroyed")

=============================================================================
